---- MODULE Spec2Model ----
(***************************************************************************)
(* A model of the document-to-quiz pipeline of Quiz-it: the chunker        *)
(* (src/lib/chunking.ts), the chunk selector and the quiz generator with   *)
(* its repair pass (src/lib/quiz/generate.ts) and the quiz schema.         *)
(*                                                                         *)
(* Text is modelled as a sequence of pieces.  A piece is one sentence of   *)
(* the document with the counts the code reads off it (words, punctuation  *)
(* marks, digit runs, characters, whether it ends in . ! or ?) and the     *)
(* separator that precedes it in the string ("none" at the start of the    *)
(* string, "space" for a blank or single line break, "blank" for the blank *)
(* line "\n\n").                                                           *)
(***************************************************************************)
EXTENDS Integers, Sequences, FiniteSets, TLC

VARIABLES
  doc,      \* chunker run: the paragraphs of the extracted document
  opts,     \* chunker run: the ChunkingOptions after defaults are applied
  chunks,   \* chunker run: the ContentChunk[] returned
  cpc,      \* chunker run: "input" before the call, "done" after it
  sIn,      \* selector run: the chunks handed to selectOptimalChunks
  sOut,     \* selector run: the chunks it returns
  spc,      \* selector run: "input" before the call, "done" after it
  gstage,   \* generation request: the stage it is in
  gcontent, \* generation request: the ExtractedContent (document and quality)
  gparams,  \* generation request: the GenerationParams
  gchunks,  \* generation request: chunks (the chunker's result)
  gselected,\* generation request: selectedChunks
  gprompt,  \* generation request: what the prompts are built from
  gresponse,\* generation request: the model's answer
  gparsed,  \* generation request: parsed (the JSON-decoded answer)
  gcorrected,\* generation request: correctedQuiz
  gresult,  \* generation request: the QuizGenerationResult returned
  gerror,   \* generation request: the error thrown, "" while there is none
  modelCalls,\* generation request: calls of openai.chat.completions.create
  retryCount,\* generation request: the local retryCount
  nIn,      \* normalizer run: the input string
  nOut,     \* normalizer run: smartNormalizeText(input)
  nAgain,   \* normalizer run: smartNormalizeText applied to nOut
  npc,      \* normalizer run: "input", "once", "twice"
  xIn,      \* extractor run: the source (type, parsed text, parser messages)
  xOut,     \* extractor run: the ExtractedContent returned
  xpc,      \* extractor run: "input" before the call, "done" after it
  rIn,      \* ranking run: the chunks and options handed to rankAndOptimizeChunks
  rOut,     \* ranking run: the chunks it returns
  rpc,      \* ranking run: "input" before the call, "done" after it
  inMemoryStore, \* rate limiter: key -> entry (count, resetAt), or no entry
  now,      \* rate limiter: Date.now()
  granted,  \* rate limiter: key -> the times at which allowRequest returned success
  allowResult, \* rate limiter: the AllowResult of the last call
  sessionsFile, \* session store: .quiz-sessions/sessions.json, id -> serialized session
  sessions, \* session store: store instance -> its Map sessions, id -> session
  clock,    \* session store: new Date()
  latest,   \* session store: id -> the session as create or the last accepted update left it
  response, \* quiz API: the last request handled and the Response given
  startCount, \* quiz API: id -> number of start requests answered with success
  qtLoading, \* QuizTaker: loading
  qtSession, \* QuizTaker: session (what the GET response told about it)
  qtCurrentQuestion, \* QuizTaker: currentQuestion (its id, 0 for null)
  qtSelectedAnswer, \* QuizTaker: selectedAnswer
  qtError,  \* QuizTaker: error !== null
  timeLeft, \* QuizTimer: timeLeft
  hasCalledTimeUp \* QuizTimer: hasCalledTimeUp.current

chunkVars == <<doc, opts, chunks, cpc>>
selVars == <<sIn, sOut, spc>>
genVars == <<gstage, gcontent, gparams, gchunks, gselected, gprompt, gresponse, gparsed,
             gcorrected, gresult, gerror, modelCalls, retryCount>>
vars == <<doc, opts, chunks, cpc, sIn, sOut, spc, gstage, gcontent, gparams, gchunks,
          gselected, gprompt, gresponse, gparsed, gcorrected, gresult, gerror, modelCalls,
          retryCount, nIn, nOut, nAgain, npc, xIn, xOut, xpc, rIn, rOut, rpc,
          inMemoryStore, now, granted, allowResult, sessionsFile, sessions, clock, latest,
          response, startCount, qtLoading, qtSession, qtCurrentQuestion, qtSelectedAnswer,
          qtError, timeLeft, hasCalledTimeUp>>
normVars == <<nIn, nOut, nAgain, npc>>
extVars == <<xIn, xOut, xpc>>
rankVars == <<rIn, rOut, rpc>>
rateVars == <<inMemoryStore, now, granted, allowResult>>
storeVars == <<sessionsFile, sessions, clock, latest, response, startCount>>
takerVars == <<qtLoading, qtSession, qtCurrentQuestion, qtSelectedAnswer, qtError, timeLeft,
               hasCalledTimeUp>>
sessVars == <<storeVars, takerVars>>
moreVars == <<normVars, extVars, rankVars, rateVars, sessVars>>

(***************************************************************************)
(* Bounds of the model.                                                    *)
(***************************************************************************)
MaxParas == 3
MaxChunks == 3
MaxQuestions == 2

(***************************************************************************)
(* Generic helpers.                                                        *)
(***************************************************************************)
Min(a, b) == IF a < b THEN a ELSE b
Max(a, b) == IF a > b THEN a ELSE b

\* Math.ceil(a / b) for a >= 0, b > 0
CeilDiv(a, b) == (a + b - 1) \div b

SeqsUpTo(S, n) == UNION {[1..k -> S] : k \in 0..n}

Undefined == "<undefined>"

(***************************************************************************)
(* Sentences the documents of the model are made of.                       *)
(* w: words, p: punctuation marks of [.,;:!?'"()[\]{}], n: digit runs,     *)
(* c: characters, end: ends in . ! or ?, kw: words longer than 3 letters   *)
(* occurring more than once, ent: capitalised names, mark: list or table   *)
(* markers.                                                                *)
(***************************************************************************)
SHeadA == [w |-> 3, p |-> 0, n |-> 0, c |-> 24, end |-> FALSE, kw |-> {}, ent |-> {"Rome"}, mark |-> "none"]
SHeadB == [w |-> 2, p |-> 0, n |-> 0, c |-> 15, end |-> FALSE, kw |-> {}, ent |-> {"Gaul"}, mark |-> "none"]
STiny  == [w |-> 2, p |-> 1, n |-> 0, c |-> 7, end |-> TRUE, kw |-> {}, ent |-> {}, mark |-> "none"]
SShort == [w |-> 12, p |-> 2, n |-> 1, c |-> 70, end |-> TRUE, kw |-> {"river"}, ent |-> {}, mark |-> "none"]
SMed   == [w |-> 1000, p |-> 100, n |-> 0, c |-> 6000, end |-> TRUE, kw |-> {"army", "senate"}, ent |-> {"Rome"}, mark |-> "none"]
SBig   == [w |-> 2600, p |-> 1, n |-> 0, c |-> 15000, end |-> TRUE, kw |-> {"army"}, ent |-> {}, mark |-> "none"]
SGiant == [w |-> 3000, p |-> 1, n |-> 0, c |-> 18000, end |-> TRUE, kw |-> {"law"}, ent |-> {}, mark |-> "none"]

(***************************************************************************)
(* Paragraphs of the raw text with the classification detectSections       *)
(* gives them (type, title, confidence in hundredths).                     *)
(***************************************************************************)
PHeadA == [sents |-> <<SHeadA>>, type |-> "heading", title |-> "Rise Of Rome", confidence |-> 80]
PHeadB == [sents |-> <<SHeadB>>, type |-> "heading", title |-> "Gaul", confidence |-> 60]
PTiny  == [sents |-> <<STiny>>, type |-> "unknown", title |-> Undefined, confidence |-> 40]
PShort == [sents |-> <<SShort>>, type |-> "paragraph", title |-> Undefined, confidence |-> 90]
PMed   == [sents |-> <<SMed>>, type |-> "paragraph", title |-> Undefined, confidence |-> 70]
PBig   == [sents |-> <<SBig>>, type |-> "paragraph", title |-> Undefined, confidence |-> 70]
PMulti == [sents |-> <<SMed, SMed, SMed, SShort>>, type |-> "paragraph", title |-> Undefined, confidence |-> 70]
PGiant == [sents |-> <<SGiant>>, type |-> "paragraph", title |-> Undefined, confidence |-> 70]

SLong  == [w |-> 150, p |-> 10, n |-> 0, c |-> 900, end |-> TRUE, kw |-> {"senate"}, ent |-> {}, mark |-> "none"]
PMix   == [sents |-> <<SShort, SLong, SShort>>, type |-> "paragraph", title |-> Undefined, confidence |-> 90]

ParaKinds == {PHeadA, PHeadB, PTiny, PShort, PMed, PBig, PMulti, PGiant, PMix}

Docs == SeqsUpTo(ParaKinds, MaxParas)

(***************************************************************************)
(* Strings.                                                                *)
(***************************************************************************)
RECURSIVE SumOver(_, _)
SumOver(str, field) ==
  IF str = <<>> THEN 0
  ELSE (CASE field = "w" -> str[1].s.w
          [] field = "p" -> str[1].s.p
          [] field = "n" -> str[1].s.n
          [] field = "c" -> str[1].s.c
                            + (CASE str[1].sep = "none" -> 0
                                 [] str[1].sep = "space" -> 1
                                 [] str[1].sep = "blank" -> 2))
       + SumOver(Tail(str), field)

\* text.split(/\s+/).filter(w => w.length > 0).length
countWords(str) == SumOver(str, "w")
\* text.trim().length
Chars(str) == SumOver(str, "c")

\* a + sep + b, for non-empty a and b
Cat(a, sep, b) == a \o [b EXCEPT ![1].sep = sep]

\* the string as a value of its own: nothing precedes its first piece
Lead(str) == IF str = <<>> THEN str ELSE [str EXCEPT ![1].sep = "none"]

\* items.join(sep), for non-empty items
RECURSIVE Join(_, _)
Join(items, sep) ==
  IF items = <<>> THEN <<>>
  ELSE IF Len(items) = 1 THEN items[1]
  ELSE Cat(items[1], sep, Join(Tail(items), sep))

\* str.split(/(?<=[.!?])\s+/): a cut after every piece that ends a sentence
RECURSIVE SplitSentences(_)
SplitSentences(str) ==
  IF str = <<>> THEN <<>>
  ELSE LET ends == {i \in 1..Len(str) : str[i].s.end}
           cut == IF ends = {} THEN Len(str)
                  ELSE CHOOSE i \in ends : \A j \in ends : i <= j
       IN <<Lead(SubSeq(str, 1, cut))>> \o SplitSentences(SubSeq(str, cut + 1, Len(str)))

\* str.split(/\n\s*\n/): a cut before every piece that follows a blank line
RECURSIVE SplitParagraphs(_)
SplitParagraphs(str) ==
  IF str = <<>> THEN <<>>
  ELSE LET brk == {i \in 2..Len(str) : str[i].sep = "blank"}
           cut == IF brk = {} THEN Len(str) + 1
                  ELSE CHOOSE i \in brk : \A j \in brk : i <= j
       IN <<Lead(SubSeq(str, 1, cut - 1))>> \o SplitParagraphs(SubSeq(str, cut, Len(str)))

estimateTokens(str) ==
  CeilDiv(13 * SumOver(str, "w") + 5 * SumOver(str, "p") + 10 * SumOver(str, "n"), 10)

(***************************************************************************)
(* The extracted document.                                                 *)
(***************************************************************************)
ParaContent(d, i) ==
  [j \in 1..Len(d[i].sents) |->
     [s |-> d[i].sents[j], sep |-> IF j = 1 THEN "none" ELSE "space", par |-> i, idx |-> j]]

DocText(d) == Join([i \in 1..Len(d) |-> ParaContent(d, i)], "blank")

\* detectSections: paragraphs under 10 characters are skipped
detectSections(d) ==
  LET all == [i \in 1..Len(d) |->
                [content |-> ParaContent(d, i), type |-> d[i].type,
                 title |-> d[i].title, confidence |-> d[i].confidence, present |-> TRUE]]
      keep(sec) == Chars(sec.content) >= 10
  IN SelectSeq(all, keep)

NoSection == [content |-> <<>>, type |-> Undefined, title |-> Undefined, confidence |-> 0, present |-> FALSE]

ExtractedContent(d) ==
  [text |-> DocText(d), wordCount |-> countWords(DocText(d)), sections |-> detectSections(d)]

(***************************************************************************)
(* Chunker (src/lib/chunking.ts).  Importance is kept in hundredths.       *)
(***************************************************************************)
DEFAULT_OPTIONS ==
  [targetTokens |-> 1500, maxTokens |-> 2000, minTokens |-> 300, overlapTokens |-> 150,
   preserveStructure |-> TRUE, prioritizeImportant |-> TRUE]

\* the options generateQuizFromExtractedContent passes
GeneratorOptions ==
  [targetTokens |-> 2500, maxTokens |-> 3500, preserveStructure |-> TRUE,
   prioritizeImportant |-> FALSE]

\* the options the legacy chunkTextByParagraphs passes
LegacyOptions == [targetTokens |-> 1800, overlapTokens |-> 180, preserveStructure |-> FALSE]

\* { ...DEFAULT_OPTIONS, ...options }
MergeOptions(options) == options @@ DEFAULT_OPTIONS

OptionChoices ==
  {MergeOptions(o) : o \in {GeneratorOptions, LegacyOptions, [preserveStructure |-> TRUE],
                            [preserveStructure |-> FALSE, prioritizeImportant |-> FALSE],
                            [targetTokens |-> 2500, maxTokens |-> 3500]}}

maxChunks == 25

RECURSIVE Digits(_)
Digits(k) ==
  LET d == <<"0", "1", "2", "3", "4", "5", "6", "7", "8", "9">>
  IN IF k < 10 THEN <<d[k + 1]>> ELSE Digits(k \div 10) \o <<d[(k % 10) + 1]>>

\* `chunk-${index}`
ChunkId(index) == <<"c", "h", "u", "n", "k", "-">> \o Digits(index)

UnionOver(str, field) ==
  UNION {IF field = "kw" THEN str[i].s.kw ELSE str[i].s.ent : i \in 1..Len(str)}

\* at most k elements of S
Some(S, k) ==
  IF Cardinality(S) <= k THEN S
  ELSE CHOOSE T \in SUBSET S : Cardinality(T) = k

extractTopics(content) ==
  Some(Some(UnionOver(content, "kw"), 5) \cup Some(UnionOver(content, "ent"), 3), 8)

\* content.split(/[.!?]+/).filter(s => s.trim().length > 10).length
SentenceCount(content) ==
  LET parts == SplitSentences(content)
      body(g) == Chars(g) - (IF g[Len(g)].s.end THEN 1 ELSE 0)
  IN Cardinality({i \in 1..Len(parts) : body(parts[i]) > 10})

calculateImportance(content, topics, sourceSection) ==
  LET heading == IF sourceSection.present /\ sourceSection.type = "heading" THEN 30 ELSE 0
      confident == IF sourceSection.present /\ sourceSection.confidence > 80 THEN 20 ELSE 0
      rich == Min(Cardinality(topics) * 5, 20)
      sentences == IF SentenceCount(content) >= 3 THEN 10 ELSE 0
      wordCount == IF content = <<>> THEN 1 ELSE countWords(content)
      medium == IF wordCount >= 50 /\ wordCount <= 500 THEN 10 ELSE 0
      short == IF wordCount < 20 THEN 30 ELSE 0
  IN Max(0, Min(100, 50 + heading + confident + rich + sentences + medium - short))

determineChunkType(content, sourceSection) ==
  IF sourceSection.present
  THEN (IF sourceSection.type = "unknown" THEN "paragraph" ELSE sourceSection.type)
  ELSE IF Chars(content) < 100 /\ \A i \in 1..Len(content) : ~content[i].s.end THEN "heading"
  ELSE IF \E i \in 1..Len(content) : content[i].s.mark = "bullet" THEN "list"
  ELSE IF \E i \in 1..Len(content) : content[i].s.mark = "pipe" THEN "table"
  ELSE "paragraph"

createChunkFromContent(content, index, context, sourceSection) ==
  [id |-> ChunkId(index),
   content |-> content,
   tokenCount |-> estimateTokens(content),
   wordCount |-> countWords(content),
   type |-> determineChunkType(content, sourceSection),
   importance |-> calculateImportance(content, extractTopics(content), sourceSection),
   topics |-> extractTopics(content),
   context |-> context,
   sourceSection |-> sourceSection]

RECURSIVE OverlapSentences(_, _, _, _, _)
OverlapSentences(sentences, j, overlap, tokens, target) ==
  IF j < 1 \/ ~(tokens < target) THEN overlap
  ELSE LET sentenceTokens == estimateTokens(sentences[j])
       IN IF tokens + sentenceTokens <= target
          THEN OverlapSentences(sentences, j - 1,
                                IF overlap = <<>> THEN sentences[j]
                                ELSE Cat(sentences[j], "space", overlap),
                                tokens + sentenceTokens, target)
          ELSE OverlapSentences(sentences, j - 1, overlap, tokens, target)

RECURSIVE OverlapItems(_, _, _, _, _)
OverlapItems(items, i, overlap, tokens, target) ==
  IF i < 1 \/ ~(tokens < target) THEN overlap
  ELSE LET chunkTokens == estimateTokens(items[i])
       IN IF tokens + chunkTokens <= target
          THEN OverlapItems(items, i - 1,
                            IF overlap = <<>> THEN items[i]
                            ELSE Cat(items[i], "blank", overlap),
                            tokens + chunkTokens, target)
          ELSE LET sentences == SplitSentences(items[i])
               IN OverlapSentences(sentences, Len(sentences), overlap, tokens, target)

createOverlap_WholeLastItem(items, targetOverlapTokens) ==
  IF Len(items) = 0 THEN <<>>
  ELSE IF estimateTokens(items[Len(items)]) > targetOverlapTokens
  THEN items[Len(items)]
  ELSE OverlapItems(items, Len(items), <<>>, 0, targetOverlapTokens)

createOverlap(items, targetOverlapTokens) ==
  IF Len(items) = 0 THEN <<>>
  ELSE OverlapItems(items, Len(items), <<>>, 0, targetOverlapTokens)

\* the last k elements of s: s.slice(-k)
LastOf(s, k) == SubSeq(s, Max(1, Len(s) - k + 1), Len(s))

RECURSIVE SplitLoop(_, _, _, _, _, _, _, _)
SplitLoop(sentences, k, out, cur, curTokens, section, options, env) ==
  IF k > Len(sentences)
  THEN (IF Len(cur) > 0
        THEN Append(out, createChunkFromContent(Join(cur, "space"), env.startIndex + Len(out),
                                                env.context, section))
        ELSE out)
  ELSE LET sentenceTokens == estimateTokens(sentences[k])
           flush == curTokens + sentenceTokens > options.targetTokens /\ Len(cur) > 0
           out1 == IF flush
                   THEN Append(out, createChunkFromContent(Join(cur, "space"),
                                                           env.startIndex + Len(out),
                                                           env.context, section))
                   ELSE out
           cur1 == IF flush THEN LastOf(cur, 2) ELSE cur
           tok1 == IF flush THEN estimateTokens(Join(LastOf(cur, 2), "space")) ELSE curTokens
       IN SplitLoop(sentences, k + 1, out1, Append(cur1, sentences[k]), tok1 + sentenceTokens,
                    section, options, env)

splitLargeSection_FromZero(section, options, startIndex, context) ==
  SplitLoop(SplitSentences(section.content), 1, <<>>, <<>>, 0, section, options,
            [startIndex |-> 0, context |-> context])

splitLargeSection(section, options, startIndex, context) ==
  SplitLoop(SplitSentences(section.content), 1, <<>>, <<>>, 0, section, options,
            [startIndex |-> startIndex, context |-> context])

\* one iteration of the loop over extractedContent.sections
SectionStep(acc, section, options) ==
  LET sectionTokens == estimateTokens(section.content)
      context == IF section.type = "heading" /\ section.title \notin {Undefined, ""}
                 THEN section.title ELSE acc.context
      pending == Len(acc.cur) > 0
  IN IF sectionTokens > options.maxTokens
     THEN LET flushed == IF pending
                         THEN Append(acc.chunks,
                                     createChunkFromContent(Join(acc.cur, "blank"), acc.chunkIndex,
                                                            context, section))
                         ELSE acc.chunks
              index1 == IF pending THEN acc.chunkIndex + 1 ELSE acc.chunkIndex
              large == splitLargeSection(section, options, index1, context)
          IN [chunks |-> flushed \o large, cur |-> <<>>,
              curTokens |-> IF pending THEN 0 ELSE acc.curTokens,
              context |-> context, chunkIndex |-> index1 + Len(large)]
     ELSE LET flush == acc.curTokens + sectionTokens > options.targetTokens /\ pending
              overlapContent == createOverlap(acc.cur, options.overlapTokens)
              cur1 == IF flush
                      THEN (IF Len(overlapContent) > 0 THEN <<overlapContent>> ELSE <<>>)
                      ELSE acc.cur
              tok1 == IF flush
                      THEN (IF Len(overlapContent) > 0 THEN estimateTokens(overlapContent) ELSE 0)
                      ELSE acc.curTokens
          IN [chunks |-> IF flush
                         THEN Append(acc.chunks,
                                     createChunkFromContent(Join(acc.cur, "blank"), acc.chunkIndex,
                                                            context, section))
                         ELSE acc.chunks,
              cur |-> Append(cur1, section.content),
              curTokens |-> tok1 + sectionTokens,
              context |-> context,
              chunkIndex |-> IF flush THEN acc.chunkIndex + 1 ELSE acc.chunkIndex]

RECURSIVE SectionLoop(_, _, _, _)
SectionLoop(acc, sections, i, options) ==
  IF i > Len(sections) THEN acc
  ELSE SectionLoop(SectionStep(acc, sections[i], options), sections, i + 1, options)

\* chunks.sort((a, b) => b.metadata.importance - a.metadata.importance): a stable sort
RECURSIVE SortByImportance(_)
SortByImportance(cs) ==
  IF cs = <<>> THEN <<>>
  ELSE LET rest == SortByImportance(SubSeq(cs, 1, Len(cs) - 1))
           x == cs[Len(cs)]
           n == Cardinality({i \in 1..Len(rest) : rest[i].importance >= x.importance})
       IN SubSeq(rest, 1, n) \o <<x>> \o SubSeq(rest, n + 1, Len(rest))

rankAndOptimizeChunks_SliceThenFilter(cs, options) ==
  LET ranked == IF options.prioritizeImportant THEN SortByImportance(cs) ELSE cs
      meaningful(c) == c.wordCount >= 5 /\ Chars(c.content) >= 20
  IN SelectSeq(SubSeq(ranked, 1, Min(Len(ranked), maxChunks)), meaningful)

rankAndOptimizeChunks(cs, options) ==
  LET ranked == IF options.prioritizeImportant THEN SortByImportance(cs) ELSE cs
      meaningful(c) == c.wordCount >= 5 /\ Chars(c.content) >= 20
      meaningfulChunks == SelectSeq(ranked, meaningful)
  IN IF Len(meaningfulChunks) > maxChunks
     THEN SubSeq(meaningfulChunks, 1, maxChunks)
     ELSE meaningfulChunks

structureAwareChunking(extractedContent, options) ==
  LET acc == SectionLoop([chunks |-> <<>>, cur |-> <<>>, curTokens |-> 0, context |-> "",
                          chunkIndex |-> 0],
                         extractedContent.sections, 1, options)
      all == IF Len(acc.cur) > 0
             THEN Append(acc.chunks,
                         createChunkFromContent(Join(acc.cur, "blank"), acc.chunkIndex,
                                                acc.context, NoSection))
             ELSE acc.chunks
  IN rankAndOptimizeChunks(all, options)

\* paragraphs over maxTokens are replaced by their sentences of more than 10 characters
RECURSIVE RefineParagraphs(_, _)
RefineParagraphs(paragraphs, options) ==
  IF paragraphs = <<>> THEN <<>>
  ELSE LET long(s) == Chars(s) > 10
       IN (IF estimateTokens(paragraphs[1]) > options.maxTokens
           THEN SelectSeq(SplitSentences(paragraphs[1]), long)
           ELSE <<paragraphs[1]>>)
          \o RefineParagraphs(Tail(paragraphs), options)

RECURSIVE ParagraphLoop(_, _, _, _)
ParagraphLoop(acc, paragraphs, k, options) ==
  IF k > Len(paragraphs) THEN acc
  ELSE LET paragraphTokens == estimateTokens(paragraphs[k])
           flush == acc.curTokens + paragraphTokens > options.targetTokens /\ Len(acc.cur) > 0
           overlapContent == createOverlap(acc.cur, options.overlapTokens)
           cur1 == IF flush
                   THEN (IF Len(overlapContent) > 0 THEN <<overlapContent>> ELSE <<>>)
                   ELSE acc.cur
           tok1 == IF flush
                   THEN (IF Len(overlapContent) > 0 THEN estimateTokens(overlapContent) ELSE 0)
                   ELSE acc.curTokens
       IN ParagraphLoop(
            [chunks |-> IF flush
                        THEN Append(acc.chunks,
                                    createChunkFromContent(Join(acc.cur, "blank"), acc.chunkIndex,
                                                           Undefined, NoSection))
                        ELSE acc.chunks,
             cur |-> Append(cur1, paragraphs[k]),
             curTokens |-> tok1 + paragraphTokens,
             chunkIndex |-> IF flush THEN acc.chunkIndex + 1 ELSE acc.chunkIndex],
            paragraphs, k + 1, options)

semanticChunking(text, options) ==
  LET refinedParagraphs == RefineParagraphs(SplitParagraphs(text), options)
      acc == ParagraphLoop([chunks |-> <<>>, cur |-> <<>>, curTokens |-> 0, chunkIndex |-> 0],
                           refinedParagraphs, 1, options)
      all == IF Len(acc.cur) > 0
             THEN Append(acc.chunks,
                         createChunkFromContent(Join(acc.cur, "blank"), acc.chunkIndex,
                                                Undefined, NoSection))
             ELSE acc.chunks
  IN rankAndOptimizeChunks(all, options)

intelligentChunking(extractedContent, options) ==
  LET totalTokens == estimateTokens(extractedContent.text)
  IN IF totalTokens <= options.targetTokens
     THEN <<[id |-> ChunkId(0),
             content |-> extractedContent.text,
             tokenCount |-> totalTokens,
             wordCount |-> extractedContent.wordCount,
             type |-> "mixed",
             importance |-> 100,
             topics |-> extractTopics(extractedContent.text),
             context |-> Undefined,
             sourceSection |-> NoSection]>>
     ELSE IF options.preserveStructure /\ Len(extractedContent.sections) > 0
     THEN structureAwareChunking(extractedContent, options)
     ELSE semanticChunking(extractedContent.text, options)

(***************************************************************************)
(* The chunker run: a document and an option set are given, and            *)
(* intelligentChunking is applied to them.                                 *)
(***************************************************************************)
ChunkIdle == doc = <<>> /\ opts = DEFAULT_OPTIONS /\ chunks = <<>> /\ cpc = "idle"
SelIdle == sIn = <<>> /\ sOut = <<>> /\ spc = "idle"

NoValue == "<none>"
NormIdle == nIn = <<>> /\ nOut = <<>> /\ nAgain = <<>> /\ npc = "idle"
ExtIdle == xIn = NoValue /\ xOut = NoValue /\ xpc = "idle"
RankIdle == rIn = NoValue /\ rOut = <<>> /\ rpc = "idle"
RateIdle == inMemoryStore = <<>> /\ now = 0 /\ granted = <<>> /\ allowResult = NoValue
SessIdle ==
  /\ sessionsFile = <<>> /\ sessions = <<>> /\ clock = 0 /\ latest = <<>>
  /\ response = NoValue /\ startCount = <<>>
  /\ qtLoading = TRUE /\ qtSession = NoValue /\ qtCurrentQuestion = 0
  /\ qtSelectedAnswer = NoValue /\ qtError = FALSE /\ timeLeft = 0 /\ hasCalledTimeUp = FALSE
MoreIdle == NormIdle /\ ExtIdle /\ RankIdle /\ RateIdle /\ SessIdle

GenIdle ==
  /\ gstage = "idle" /\ gcontent = NoValue /\ gparams = NoValue /\ gchunks = <<>>
  /\ gselected = <<>> /\ gprompt = NoValue /\ gresponse = NoValue /\ gparsed = NoValue
  /\ gcorrected = NoValue /\ gresult = NoValue /\ gerror = "" /\ modelCalls = 0
  /\ retryCount = 0

ChunkInit ==
  /\ SelIdle /\ GenIdle /\ MoreIdle
  /\ doc \in Docs
  /\ opts \in OptionChoices
  /\ chunks = <<>>
  /\ cpc = "input"

Chunk ==
  /\ cpc = "input"
  /\ chunks' = intelligentChunking(ExtractedContent(doc), opts)
  /\ cpc' = "done"
  /\ UNCHANGED <<doc, opts, selVars, genVars, moreVars>>

ChunkNext == Chunk

SpecChunk == ChunkInit /\ [][ChunkNext]_vars

(***************************************************************************)
(* C1: every chunk intelligentChunking returns has an estimated token      *)
(* count of at most maxTokens, unless its content is a single sentence     *)
(* that alone exceeds maxTokens.                                           *)
(***************************************************************************)
SingleSentence(content) == Len(SplitSentences(content)) = 1

C1_ChunkWithinMaxTokens ==
  cpc = "done" =>
    \A i \in 1..Len(chunks) :
      \/ estimateTokens(chunks[i].content) <= opts.maxTokens
      \/ SingleSentence(chunks[i].content)

(***************************************************************************)
(* Chunk selector (src/lib/quiz/generate.ts, selectOptimalChunks).         *)
(***************************************************************************)
maxAllowedTokens == 15000

\* id.split('-')
RECURSIVE SplitDash(_)
SplitDash(id) ==
  LET dashes == {i \in 1..Len(id) : id[i] = "-"}
  IN IF dashes = {} THEN <<id>>
     ELSE LET cut == CHOOSE i \in dashes : \A j \in dashes : i <= j
          IN <<SubSeq(id, 1, cut - 1)>> \o SplitDash(SubSeq(id, cut + 1, Len(id)))

DigitValue(ch) ==
  CASE ch = "0" -> 0 [] ch = "1" -> 1 [] ch = "2" -> 2 [] ch = "3" -> 3 [] ch = "4" -> 4
    [] ch = "5" -> 5 [] ch = "6" -> 6 [] ch = "7" -> 7 [] ch = "8" -> 8 [] ch = "9" -> 9

IsDigit(ch) == ch \in {"0", "1", "2", "3", "4", "5", "6", "7", "8", "9"}

\* parseInt of a string that starts with a digit: the value of its leading digits
RECURSIVE ParseDigits(_, _)
ParseDigits(str, acc) ==
  IF str = <<>> \/ ~IsDigit(str[1]) THEN acc
  ELSE ParseDigits(Tail(str), 10 * acc + DigitValue(str[1]))

\* parseInt(id.split('-')[1] || '0')
ChunkNumber(id) ==
  LET parts == SplitDash(id)
      suffix == IF Len(parts) >= 2 /\ parts[2] # <<>> THEN parts[2] ELSE <<"0">>
  IN ParseDigits(suffix, 0)

SortById_AsDelivered(cs) == cs

\* [...chunks].sort((a, b) => aId - bId): a stable sort
RECURSIVE SortById(_)
SortById(cs) ==
  IF cs = <<>> THEN <<>>
  ELSE LET rest == SortById(SubSeq(cs, 1, Len(cs) - 1))
           x == cs[Len(cs)]
           n == Cardinality({i \in 1..Len(rest) : ChunkNumber(rest[i].id) <= ChunkNumber(x.id)})
       IN SubSeq(rest, 1, n) \o <<x>> \o SubSeq(rest, n + 1, Len(rest))

RECURSIVE TotalTokens(_)
TotalTokens(cs) == IF cs = <<>> THEN 0 ELSE cs[1].tokenCount + TotalTokens(Tail(cs))

RECURSIVE GreedySelect_NoRunningTotal(_, _, _)
GreedySelect_NoRunningTotal(cs, selected, currentTokens) ==
  IF cs = <<>> THEN selected
  ELSE IF cs[1].tokenCount <= maxAllowedTokens
       THEN GreedySelect_NoRunningTotal(Tail(cs), Append(selected, cs[1]), currentTokens)
       ELSE GreedySelect_NoRunningTotal(Tail(cs), selected, currentTokens)

\* the loop over importanceSorted
RECURSIVE GreedySelect(_, _, _)
GreedySelect(cs, selected, currentTokens) ==
  IF cs = <<>> THEN selected
  ELSE IF currentTokens + cs[1].tokenCount <= maxAllowedTokens
       THEN GreedySelect(Tail(cs), Append(selected, cs[1]), currentTokens + cs[1].tokenCount)
       ELSE GreedySelect(Tail(cs), selected, currentTokens)

selectOptimalChunks(cs) ==
  LET sortedChunks == SortById(cs)
      totalTokens == TotalTokens(sortedChunks)
  IN IF totalTokens <= maxAllowedTokens
     THEN sortedChunks
     ELSE SortById(GreedySelect(SortByImportance(cs), <<>>, 0))

(***************************************************************************)
(* The selector run: a chunk list as the chunker delivers it (distinct     *)
(* ids, any order) is given, and selectOptimalChunks is applied to it.     *)
(***************************************************************************)
SelIndices == {0, 1, 2, 10}
SelTokenCounts == {6000, 9000, 16000}
SelImportances == {50, 90}

SelChunk(i, t, m) == [id |-> ChunkId(i), tokenCount |-> t, importance |-> m]

\* the lists of k pairwise distinct chunk numbers
RECURSIVE SelIndexLists(_)
SelIndexLists(k) ==
  IF k = 0 THEN {<<>>}
  ELSE UNION {{Append(is, i) : i \in {j \in SelIndices : \A a \in 1..Len(is) : is[a] # j}} :
              is \in SelIndexLists(k - 1)}

\* a chunk list as the chunker delivers it: pairwise distinct ids, any order
SelList(is, ts, ms) == [a \in 1..Len(is) |-> SelChunk(is[a], ts[a], ms[a])]

SelectInit ==
  /\ ChunkIdle /\ GenIdle /\ MoreIdle
  /\ \E k \in 1..MaxChunks :
       \E is \in SelIndexLists(k) :
         \E ts \in [1..k -> SelTokenCounts], ms \in [1..k -> SelImportances] :
           sIn = SelList(is, ts, ms)
  /\ sOut = <<>>
  /\ spc = "input"

Select ==
  /\ spc = "input"
  /\ sOut' = selectOptimalChunks(sIn)
  /\ spc' = "done"
  /\ UNCHANGED <<sIn, chunkVars, genVars, moreVars>>

SelectNext == Select

SpecSelect == SelectInit /\ [][SelectNext]_vars

IsSubsequenceOfInput(out, in) == \A i \in 1..Len(out) : \E j \in 1..Len(in) : in[j] = out[i]

AscendingIds(out) ==
  \A i, j \in 1..Len(out) : i < j => ChunkNumber(out[i].id) < ChunkNumber(out[j].id)

(***************************************************************************)
(* C2: over budget, selectOptimalChunks returns a subset of the input      *)
(* whose token counts sum to at most the budget, in ascending order of the *)
(* numeric id suffix, with no chunk twice.                                 *)
(***************************************************************************)
C2_OverBudgetSelection ==
  (spc = "done" /\ TotalTokens(sIn) > maxAllowedTokens) =>
    /\ IsSubsequenceOfInput(sOut, sIn)
    /\ TotalTokens(sOut) <= maxAllowedTokens
    /\ AscendingIds(sOut)
    /\ \A i, j \in 1..Len(sOut) : i # j => sOut[i] # sOut[j]

C2_Witness ==
  /\ spc = "done"
  /\ TotalTokens(sIn) > maxAllowedTokens
  /\ Len(sOut) = 2
  /\ Len(sIn) = 3
  /\ ~AscendingIds(sIn)
  /\ TotalTokens(sOut) = maxAllowedTokens

(***************************************************************************)
(* C3: within budget, selectOptimalChunks returns exactly the input        *)
(* chunks, in ascending order of the numeric id suffix, whatever order     *)
(* they were delivered in.                                                 *)
(***************************************************************************)
C3_WithinBudgetAll ==
  (spc = "done" /\ TotalTokens(sIn) <= maxAllowedTokens) =>
    /\ Len(sOut) = Len(sIn)
    /\ IsSubsequenceOfInput(sOut, sIn)
    /\ IsSubsequenceOfInput(sIn, sOut)
    /\ AscendingIds(sOut)

C3_Witness ==
  /\ spc = "done"
  /\ TotalTokens(sIn) <= maxAllowedTokens
  /\ Len(sIn) = 2
  /\ sIn[1].id = ChunkId(10)
  /\ sIn[2].id = ChunkId(2)
  /\ sIn[1].importance > sIn[2].importance
  /\ sOut = <<sIn[2], sIn[1]>>

(***************************************************************************)
(* JSON values of the model's answer.  A scalar is [t, v]: its JavaScript  *)
(* type and its value written as a string.  Objects and arrays carry, next *)
(* to their fields, the type t the code tests with typeof, Array.isArray   *)
(* and truthiness; a field a non-object does not have is undefined.        *)
(***************************************************************************)
Undef == [t |-> "undef", v |-> ""]
Null == [t |-> "null", v |-> ""]
Str(x) == [t |-> "str", v |-> x]
Num(x) == [t |-> "num", v |-> x]
Bool(x) == [t |-> "bool", v |-> x]

\* a value used as a condition: !x is ~Truthy(x)
Truthy(x) ==
  \/ x.t = "str" /\ x.v # ""
  \/ x.t = "num" /\ x.v # "0"
  \/ x.t = "bool" /\ x.v = "true"
  \/ x.t \in {"obj", "arr"}

\* whether a property of x can be read (null and undefined throw a TypeError)
Readable(x) == x.t \notin {"null", "undef"}
\* whether a property of x can be assigned (strict mode: a primitive throws too)
Assignable(x) == x.t \in {"obj", "arr"}

NumberValue(k) == [t |-> "num", n |-> k]
NoNumber(type) == [t |-> type, n |-> 0]

Option(id, text) == [t |-> "obj", id |-> id, text |-> text]
NullOption == [t |-> "null", id |-> Undef, text |-> Undef]

Options(items) == [t |-> "arr", items |-> items]
NoOptions(type) == [t |-> type, items |-> <<>>]

Question(id, type, prompt, explanation, difficulty, options, correctOptionId, answer) ==
  [t |-> "obj", id |-> id, type |-> type, prompt |-> prompt, explanation |-> explanation,
   difficulty |-> difficulty, sourceSpan |-> Undef, options |-> options,
   correctOptionId |-> correctOptionId, answer |-> answer]
NullQuestion ==
  [t |-> "null", id |-> Undef, type |-> Undef, prompt |-> Undef, explanation |-> Undef,
   difficulty |-> Undef, sourceSpan |-> Undef, options |-> NoOptions("undef"),
   correctOptionId |-> Undef, answer |-> Undef]

Questions(items) == [t |-> "arr", items |-> items]
NoQuestions(type) == [t |-> type, items |-> <<>>]

Section(id, title, questions) == [t |-> "obj", id |-> id, title |-> title, questions |-> questions]
NullSection == [t |-> "null", id |-> Undef, title |-> Undef, questions |-> NoQuestions("undef")]

Sections(items) == [t |-> "arr", items |-> items]
NoSections(type) == [t |-> type, items |-> <<>>]

Meta(title, language, numQuestions, createdAt) ==
  [t |-> "obj", title |-> title, language |-> language, numQuestions |-> numQuestions,
   createdAt |-> createdAt, v |-> ""]
NoMeta(type, value) ==
  [t |-> type, title |-> Undef, language |-> Undef, numQuestions |-> NoNumber("undef"),
   createdAt |-> Undef, v |-> value]

QuizValue(meta, sections) == [t |-> "obj", meta |-> meta, sections |-> sections]
NonObjectValue(type) == [t |-> type, meta |-> NoMeta("undef", ""), sections |-> NoSections("undef")]

(***************************************************************************)
(* Repair pass (src/lib/quiz/generate.ts, validateAndCorrectQuiz).         *)
(* A result is [threw, value]: threw says the call threw, and then value   *)
(* is not used.                                                            *)
(***************************************************************************)
\* `q-${n}` and `opt-${n}`, `Option ${n}`
NumberedName(prefix, k) ==
  CASE prefix = "q" -> <<"q-1", "q-2", "q-3", "q-4", "q-5", "q-6", "q-7", "q-8", "q-9">>[k]
    [] prefix = "opt" -> <<"opt-1", "opt-2", "opt-3", "opt-4">>[k]
    [] prefix = "Option" -> <<"Option 1", "Option 2", "Option 3", "Option 4">>[k]

Now == "2024-01-01T00:00:00.000Z"

generateFallbackExplanation(question) ==
  IF question.type = Str("mcq")
  THEN Str("This question tests understanding of the key concepts presented in the document.")
  ELSE IF question.type = Str("true-false")
  THEN (IF Truthy(question.answer)
        THEN Str("This statement is true according to the information presented in the document.")
        ELSE Str("This statement is false according to the information presented in the document."))
  ELSE Str("This question is based on information provided in the document.")

generateFallbackOptions ==
  Options(<<Option(Str("opt-1"), Str("Option A")), Option(Str("opt-2"), Str("Option B")),
            Option(Str("opt-3"), Str("Option C")), Option(Str("opt-4"), Str("Option D"))>>)

\* the body of question.options.forEach
RepairOption(option, idx) ==
  [option EXCEPT !.id = IF ~Truthy(@) THEN Str(NumberedName("opt", idx)) ELSE @,
                 !.text = IF ~Truthy(@) THEN Str(NumberedName("Option", idx)) ELSE @]

\* whether the forEach throws: an option that is null, or a primitive it assigns to
OptionThrows(option) ==
  \/ ~Readable(option)
  \/ ~Assignable(option) /\ (~Truthy(option.id) \/ ~Truthy(option.text))

RepairMcq_KeepCorrectOptionId(question) ==
  LET options1 == IF question.options.t # "arr" \/ Len(question.options.items) # 4
                  THEN generateFallbackOptions
                  ELSE question.options
      threw == \E i \in 1..4 : OptionThrows(options1.items[i])
      options2 == Options([i \in 1..4 |-> RepairOption(options1.items[i], i)])
  IN [threw |-> threw,
      value |-> IF threw THEN question ELSE [question EXCEPT !.options = options2]]

RepairMcq(question) ==
  LET options1 == IF question.options.t # "arr" \/ Len(question.options.items) # 4
                  THEN generateFallbackOptions
                  ELSE question.options
      threw == \E i \in 1..4 : OptionThrows(options1.items[i])
      options2 == Options([i \in 1..4 |-> RepairOption(options1.items[i], i)])
      matches == \E i \in 1..4 : options2.items[i].id = question.correctOptionId
      correct == IF ~Truthy(question.correctOptionId) \/ ~matches
                 THEN options2.items[1].id
                 ELSE question.correctOptionId
  IN [threw |-> threw,
      value |-> IF threw THEN question
                ELSE [question EXCEPT !.options = options2, !.correctOptionId = correct]]

RepairTrueFalse(question) ==
  IF question.answer.t # "bool" THEN [question EXCEPT !.answer = Bool("true")] ELSE question

\* the body of the loop over section.questions, with totalQuestions questions counted so far
RepairQuestion(question, totalQuestions, params) ==
  IF ~Assignable(question)
  THEN [threw |-> TRUE, value |-> question]
  ELSE LET q1 == [question EXCEPT
                    !.id = IF ~Truthy(@) THEN Str(NumberedName("q", totalQuestions + 1)) ELSE @,
                    !.prompt = IF ~Truthy(@) THEN Str("Question prompt missing") ELSE @]
           q2 == [q1 EXCEPT
                    !.explanation = IF ~Truthy(@) THEN generateFallbackExplanation(q1) ELSE @,
                    !.difficulty = IF ~Truthy(@) THEN Str(params.difficulty) ELSE @]
       IN IF q2.type = Str("mcq") THEN RepairMcq(q2)
          ELSE IF q2.type = Str("true-false")
          THEN [threw |-> FALSE, value |-> RepairTrueFalse(q2)]
          ELSE [threw |-> FALSE, value |-> q2]

\* the loop over section.questions from index i on
RECURSIVE RepairQuestions(_, _, _, _)
RepairQuestions(items, i, totalQuestions, params) ==
  IF i > Len(items) THEN [threw |-> FALSE, items |-> items, totalQuestions |-> totalQuestions]
  ELSE LET r == RepairQuestion(items[i], totalQuestions, params)
       IN IF r.threw THEN [threw |-> TRUE, items |-> items, totalQuestions |-> totalQuestions]
          ELSE RepairQuestions([items EXCEPT ![i] = r.value], i + 1, totalQuestions + 1, params)

\* the loop over quiz.sections from index k on
RECURSIVE RepairSections(_, _, _, _)
RepairSections(items, k, totalQuestions, params) ==
  IF k > Len(items) THEN [threw |-> FALSE, items |-> items, totalQuestions |-> totalQuestions]
  ELSE LET section == items[k]
       IN IF ~Readable(section) THEN [threw |-> TRUE, items |-> items, totalQuestions |-> totalQuestions]
          ELSE IF section.questions.t # "arr"
          THEN (IF ~Assignable(section)
                THEN [threw |-> TRUE, items |-> items, totalQuestions |-> totalQuestions]
                ELSE RepairSections([items EXCEPT ![k].questions = Questions(<<>>)], k + 1,
                                    totalQuestions, params))
          ELSE LET r == RepairQuestions(section.questions.items, 1, totalQuestions, params)
               IN IF r.threw THEN [threw |-> TRUE, items |-> items, totalQuestions |-> totalQuestions]
                  ELSE RepairSections([items EXCEPT ![k].questions = Questions(r.items)], k + 1,
                                      r.totalQuestions, params)

\* the default section the repair pass creates when there is none
DefaultSection == Section(Str("section-1"), Str("Quiz Questions"), Questions(<<>>))

\* the meta the repair pass creates when there is none
DefaultMeta(params) ==
  Meta(Str("Generated Quiz"), Str(params.language), NumberValue(params.numQuestions), Str(Now))

validateAndCorrectQuiz_KeepNumQuestions(parsed, params) ==
  IF parsed.t \notin {"obj", "arr"} \/ ~Truthy(parsed)
  THEN [threw |-> TRUE, error |-> "AI response is not a valid object", value |-> parsed]
  ELSE LET meta1 == IF ~Truthy(parsed.meta) THEN DefaultMeta(params) ELSE parsed.meta
           sections1 == IF parsed.sections.t # "arr" THEN <<>> ELSE parsed.sections.items
           sections2 == IF Len(sections1) = 0 THEN <<DefaultSection>> ELSE sections1
           r == RepairSections(sections2, 1, 0, params)
       IN IF r.threw \/ ~Assignable(meta1)
          THEN [threw |-> TRUE, error |-> "TypeError", value |-> parsed]
          ELSE [threw |-> FALSE, error |-> "",
                value |-> [parsed EXCEPT !.meta = meta1, !.sections = Sections(r.items)]]

validateAndCorrectQuiz_AddsQuestion(parsed, params) ==
  IF parsed.t \notin {"obj", "arr"} \/ ~Truthy(parsed)
  THEN [threw |-> TRUE, error |-> "AI response is not a valid object", value |-> parsed]
  ELSE LET meta1 == IF ~Truthy(parsed.meta) THEN DefaultMeta(params) ELSE parsed.meta
           sections1 == IF parsed.sections.t # "arr" THEN <<>> ELSE parsed.sections.items
           sections2 == IF Len(sections1) = 0
                        THEN <<[DefaultSection EXCEPT !.questions =
                                  Questions(<<[NullQuestion EXCEPT !.t = "obj",
                                                                   !.type = Str("true-false")]>>)]>>
                        ELSE sections1
           r == RepairSections(sections2, 1, 0, params)
       IN IF r.threw \/ ~Assignable(meta1)
          THEN [threw |-> TRUE, error |-> "TypeError", value |-> parsed]
          ELSE [threw |-> FALSE, error |-> "",
                value |-> [parsed EXCEPT
                             !.meta = [meta1 EXCEPT !.numQuestions = NumberValue(r.totalQuestions)],
                             !.sections = Sections(r.items)]]

validateAndCorrectQuiz(parsed, params) ==
  IF parsed.t \notin {"obj", "arr"} \/ ~Truthy(parsed)
  THEN [threw |-> TRUE, error |-> "AI response is not a valid object", value |-> parsed]
  ELSE LET meta1 == IF ~Truthy(parsed.meta) THEN DefaultMeta(params) ELSE parsed.meta
           sections1 == IF parsed.sections.t # "arr" THEN <<>> ELSE parsed.sections.items
           sections2 == IF Len(sections1) = 0 THEN <<DefaultSection>> ELSE sections1
           r == RepairSections(sections2, 1, 0, params)
       IN IF r.threw \/ ~Assignable(meta1)
          THEN [threw |-> TRUE, error |-> "TypeError", value |-> parsed]
          ELSE [threw |-> FALSE, error |-> "",
                value |-> [parsed EXCEPT
                             !.meta = [meta1 EXCEPT !.numQuestions = NumberValue(r.totalQuestions)],
                             !.sections = Sections(r.items)]]

(***************************************************************************)
(* Quiz schema (src/unnamed/part_000).  Each operator says whether the     *)
(* zod schema of that name accepts the value.                              *)
(***************************************************************************)
IsString(x) == x.t = "str"
NonEmptyString(x) == x.t = "str" /\ x.v # ""
TooLong == "<a text of more than 200 characters>"

McqOptionSchema(option) ==
  /\ option.t = "obj"
  /\ NonEmptyString(option.id)
  /\ NonEmptyString(option.text) /\ option.text.v # TooLong

QuestionBaseSchema(question) ==
  /\ question.t = "obj"
  /\ IsString(question.id)
  /\ question.type \in {Str("mcq"), Str("true-false")}
  /\ NonEmptyString(question.prompt)
  /\ question.difficulty \in {Undef, Str("easy"), Str("medium"), Str("hard")}
  /\ question.sourceSpan.t \in {"undef", "str"}
  /\ NonEmptyString(question.explanation)

McqQuestionSchema(question) ==
  /\ QuestionBaseSchema(question)
  /\ question.type = Str("mcq")
  /\ question.options.t = "arr"
  /\ Len(question.options.items) = 4
  /\ \A i \in 1..Len(question.options.items) : McqOptionSchema(question.options.items[i])
  /\ IsString(question.correctOptionId)
  /\ \E i \in 1..Len(question.options.items) :
       question.options.items[i].id = question.correctOptionId

TrueFalseQuestionSchema(question) ==
  /\ QuestionBaseSchema(question)
  /\ question.type = Str("true-false")
  /\ question.answer.t = "bool"

AnyQuestionSchema(question) ==
  /\ question.t = "obj"
  /\ \/ question.type = Str("mcq") /\ McqQuestionSchema(question)
     \/ question.type = Str("true-false") /\ TrueFalseQuestionSchema(question)

QuizSectionSchema(section) ==
  /\ section.t = "obj"
  /\ IsString(section.id)
  /\ NonEmptyString(section.title)
  /\ section.questions.t = "arr"
  /\ Len(section.questions.items) >= 1
  /\ \A i \in 1..Len(section.questions.items) : AnyQuestionSchema(section.questions.items[i])

QuizMetaSchema(meta) ==
  /\ meta.t = "obj"
  /\ NonEmptyString(meta.title)
  /\ meta.language.t \in {"undef", "str"}
  /\ meta.numQuestions.t = "num" /\ meta.numQuestions.n > 0
  /\ IsString(meta.createdAt)

QuizSchema(quiz) ==
  /\ quiz.t = "obj"
  /\ QuizMetaSchema(quiz.meta)
  /\ quiz.sections.t = "arr"
  /\ Len(quiz.sections.items) >= 1
  /\ \A k \in 1..Len(quiz.sections.items) : QuizSectionSchema(quiz.sections.items[k])

\* validated.data: the accepted value with the schema's defaults filled in
SchemaData(quiz) ==
  [quiz EXCEPT
     !.meta.language = IF @.t = "undef" THEN Str("en") ELSE @,
     !.sections.items =
        [k \in 1..Len(@) |->
           [@[k] EXCEPT !.questions.items =
              [i \in 1..Len(@) |->
                 [@[i] EXCEPT !.difficulty = IF @.t = "undef" THEN Str("medium") ELSE @]]]]]

(***************************************************************************)
(* Answers of the model: the questions, sections and metas they are made   *)
(* of.  A well-formed answer is among them, and so is each defect the      *)
(* repair pass or the schema tests for.                                    *)
(***************************************************************************)
FourOptions ==
  Options(<<Option(Str("a"), Str("Tiber")), Option(Str("b"), Str("Rhine")),
            Option(Str("c"), Str("Po")), Option(Str("d"), Str("Rhone"))>>)

QTrueFalse ==
  Question(Str("tf-1"), Str("true-false"), Str("Rome lies on the Tiber."),
           Str("The text says so."), Str("easy"), NoOptions("undef"), Undef, Bool("false"))
QTrueFalseBare ==
  Question(Undef, Str("true-false"), Str("Caesar crossed the Rhine."), Undef, Undef,
           NoOptions("undef"), Undef, Undef)
QMcq ==
  Question(Str("q-1"), Str("mcq"), Str("Which river?"), Str("See section 1."), Str("medium"),
           FourOptions, Str("b"), Undef)
QMcqNoOptions ==
  Question(Undef, Str("mcq"), Str("Which law?"), Undef, Undef, NoOptions("undef"), Undef, Undef)
QMcqThree ==
  Question(Str("m-3"), Str("mcq"), Str("Which year?"), Str("See section 2."), Str("hard"),
           Options(<<Option(Str("a"), Str("44 BC")), Option(Str("b"), Str("27 BC")),
                     Option(Str("c"), Str("14 AD"))>>),
           Str("a"), Undef)
QMcqWrongCorrect ==
  Question(Str("m-4"), Str("mcq"), Str("Which sea?"), Str("See section 3."), Undef,
           FourOptions, Str("z"), Undef)
QMcqMissingOptionId ==
  Question(Str("m-5"), Str("mcq"), Str("Which consul?"), Str("See section 4."), Str("easy"),
           Options(<<Option(Str("opt-2"), Str("Marius")), Option(Undef, Str("Sulla")),
                     Option(Str("c"), Str("Cinna")), Option(Str("d"), Undef)>>),
           Str("opt-2"), Undef)
QMcqNullOption ==
  Question(Str("m-6"), Str("mcq"), Str("Which tribe?"), Str("See section 5."), Str("easy"),
           Options(<<Option(Str("a"), Str("Helvetii")), NullOption,
                     Option(Str("c"), Str("Suebi")), Option(Str("d"), Str("Belgae"))>>),
           Str("a"), Undef)
QShortAnswer ==
  Question(Str("sa-1"), Str("short-answer"), Str("Name the river."), Str("See section 1."),
           Str("easy"), NoOptions("undef"), Undef, Undef)

QuestionKinds ==
  {QTrueFalse, QTrueFalseBare, QMcq, QMcqNoOptions, QMcqThree, QMcqWrongCorrect,
   QMcqMissingOptionId, QMcqNullOption, QShortAnswer, NullQuestion}

FirstSection(qs) == Section(Str("s1"), Str("Part 1"), Questions(qs))
SecondSection(qs) == Section(Str("s2"), Str("Part 2"), Questions(qs))

\* the questions qs in one section, or split over two
SectionSplits(qs) ==
  {<<FirstSection(qs)>>}
  \cup {<<FirstSection(SubSeq(qs, 1, k)), SecondSection(SubSeq(qs, k + 1, Len(qs)))>> :
          k \in 0..Len(qs)}

SectionLists == UNION {SectionSplits(qs) : qs \in SeqsUpTo(QuestionKinds, MaxQuestions)}

MalformedSections ==
  {NoSections("undef"), NoSections("str"), Sections(<<>>), Sections(<<NullSection>>),
   Sections(<<Section(Str("s1"), Str("Part 1"), NoQuestions("undef"))>>),
   Sections(<<Section(Undef, Undef, Questions(<<QTrueFalse>>))>>),
   Sections(<<FirstSection(<<QMcq>>), NullSection>>)}

MetaAbsent == NoMeta("undef", "")
MetaFull == Meta(Str("Roman History"), Str("en"), NumberValue(7), Str("2023-05-01"))
MalformedMetas ==
  {NoMeta("null", ""), NoMeta("num", "5"), NoMeta("str", "history"),
   Meta(Undef, Undef, NoNumber("str"), Str("2023-05-01"))}

ModelValues ==
  {QuizValue(m, Sections(ss)) : m \in {MetaAbsent, MetaFull}, ss \in SectionLists}
  \cup {QuizValue(m, ss) : m \in {MetaAbsent, MetaFull} \cup MalformedMetas,
                           ss \in MalformedSections}
  \cup {QuizValue(m, Sections(<<FirstSection(<<QTrueFalse>>)>>)) : m \in MalformedMetas}
  \cup {NonObjectValue(type) : type \in {"null", "num", "str", "arr"}}

\* what openai.chat.completions.create gives: an error, or a text that is JSON or not
ModelError == [kind |-> "error", valid |-> FALSE, value |-> NonObjectValue("undef")]
NotJson == [kind |-> "text", valid |-> FALSE, value |-> NonObjectValue("undef")]
JsonText(value) == [kind |-> "text", valid |-> TRUE, value |-> value]

ModelResponses == {ModelError, NotJson} \cup {JsonText(value) : value \in ModelValues}

(***************************************************************************)
(* The generation request (generateQuizFromExtractedContent and            *)
(* generateQuizFromChunks).                                                *)
(***************************************************************************)
S99 == [w |-> 99, p |-> 8, n |-> 0, c |-> 600, end |-> TRUE, kw |-> {"city"}, ent |-> {}, mark |-> "none"]
S100 == [w |-> 100, p |-> 8, n |-> 0, c |-> 610, end |-> TRUE, kw |-> {"city"}, ent |-> {}, mark |-> "none"]
SDigits == [w |-> 1, p |-> 1999, n |-> 2000, c |-> 8900, end |-> FALSE, kw |-> {}, ent |-> {}, mark |-> "none"]

P199 == [sents |-> <<S99, S100>>, type |-> "paragraph", title |-> Undefined, confidence |-> 80]
P200 == [sents |-> <<S100, S100>>, type |-> "paragraph", title |-> Undefined, confidence |-> 80]
PDigits == [sents |-> <<SDigits>>, type |-> "unknown", title |-> Undefined, confidence |-> 40]
\* 12000 words without a sentence end: one chunk of 15600 tokens
SUnbroken == [w |-> 12000, p |-> 0, n |-> 0, c |-> 72000, end |-> FALSE, kw |-> {"city"}, ent |-> {}, mark |-> "none"]
PUnbroken == [sents |-> <<SUnbroken>>, type |-> "paragraph", title |-> Undefined, confidence |-> 80]

GenContents ==
  {[doc |-> <<PShort>>, quality |-> "low"],
   [doc |-> <<PShort>>, quality |-> "medium"],
   [doc |-> <<P199>>, quality |-> "low"],
   [doc |-> <<P199>>, quality |-> "medium"],
   [doc |-> <<P200>>, quality |-> "low"],
   [doc |-> <<PHeadA, PMed, PBig>>, quality |-> "high"],
   [doc |-> <<PDigits>>, quality |-> "medium"],
   [doc |-> <<PUnbroken>>, quality |-> "medium"]}

GenParams ==
  {[numQuestions |-> 10, difficulty |-> "medium", language |-> "en",
    questionTypes |-> {"mcq", "true-false"}, quizName |-> Undefined],
   [numQuestions |-> 3, difficulty |-> "hard", language |-> "fr",
    questionTypes |-> {"mcq"}, quizName |-> "My Quiz"],
   [numQuestions |-> 3, difficulty |-> "easy", language |-> "en",
    questionTypes |-> {"mcq"}, quizName |-> " My Quiz "],
   [numQuestions |-> 3, difficulty |-> "easy", language |-> "en",
    questionTypes |-> {"true-false"}, quizName |-> "   "],
   [numQuestions |-> 3, difficulty |-> "easy", language |-> "en",
    questionTypes |-> {"true-false"}, quizName |-> ""]}

\* the ExtractedContent of the request
Extracted(content) ==
  [text |-> DocText(content.doc), wordCount |-> countWords(DocText(content.doc)),
   quality |-> content.quality, sections |-> detectSections(content.doc)]

ContentTooLimited_EitherTest(extractedContent) ==
  extractedContent.quality = "low" \/ extractedContent.wordCount < 200

\* extractedContent.metadata.quality === 'low' && extractedContent.metadata.wordCount < 200
ContentTooLimited(extractedContent) ==
  extractedContent.quality = "low" /\ extractedContent.wordCount < 200

\* what createSystemPrompt and createUserPrompt put into the prompts
Prompts(selected, extractedContent, params) ==
  [numQuestions |-> params.numQuestions,
   difficulty |-> params.difficulty,
   questionTypes |-> params.questionTypes,
   blocks |-> [i \in 1..Len(selected) |->
                 [id |-> selected[i].id, context |-> selected[i].context,
                  type |-> selected[i].type, importance |-> selected[i].importance]],
   wordCount |-> extractedContent.wordCount,
   quality |-> extractedContent.quality]

\* params.quizName && params.quizName.trim()
Trim(name) ==
  CASE name = " My Quiz " -> "My Quiz"
    [] name = "   " -> ""
    [] OTHER -> name

TitleOverride_Untrimmed(quiz, params) ==
  IF params.quizName \notin {Undefined, ""} /\ Trim(params.quizName) # ""
  THEN [quiz EXCEPT !.meta.title = Str(params.quizName)]
  ELSE quiz

TitleOverride(quiz, params) ==
  IF params.quizName \notin {Undefined, ""} /\ Trim(params.quizName) # ""
  THEN [quiz EXCEPT !.meta.title = Str(Trim(params.quizName))]
  ELSE quiz

GenInit ==
  /\ ChunkIdle /\ SelIdle /\ MoreIdle
  /\ gstage = "ValidatingContent"
  /\ gcontent \in GenContents
  /\ gparams \in GenParams
  /\ gchunks = <<>> /\ gselected = <<>>
  /\ gprompt = NoValue /\ gresponse = NoValue /\ gparsed = NoValue
  /\ gcorrected = NoValue /\ gresult = NoValue
  /\ gerror = ""
  /\ modelCalls = 0
  /\ retryCount = 0

Fail(error) == gstage' = "Failed" /\ gerror' = error

\* generate.ts 50-53
ValidateContent ==
  /\ gstage = "ValidatingContent"
  /\ IF ContentTooLimited(Extracted(gcontent))
     THEN Fail("ContentTooLimited")
     ELSE gstage' = "Chunking" /\ gerror' = gerror
  /\ UNCHANGED <<gcontent, gparams, gchunks, gselected, gprompt, gresponse, gparsed,
                 gcorrected, gresult, modelCalls, retryCount, chunkVars, selVars, moreVars>>

\* generate.ts 55-65
DoChunking ==
  /\ gstage = "Chunking"
  /\ gchunks' = intelligentChunking(Extracted(gcontent), MergeOptions(GeneratorOptions))
  /\ IF Len(gchunks') = 0
     THEN Fail("NoContent")
     ELSE gstage' = "Selecting" /\ gerror' = gerror
  /\ UNCHANGED <<gcontent, gparams, gselected, gprompt, gresponse, gparsed,
                 gcorrected, gresult, modelCalls, retryCount, chunkVars, selVars, moreVars>>

\* generate.ts 73-74
DoSelecting ==
  /\ gstage = "Selecting"
  /\ gselected' = selectOptimalChunks(gchunks)
  /\ gstage' = "Prompting"
  /\ UNCHANGED <<gcontent, gparams, gchunks, gprompt, gresponse, gparsed,
                 gcorrected, gresult, gerror, modelCalls, retryCount, chunkVars, selVars, moreVars>>

\* generate.ts 164-171
DoPrompting ==
  /\ gstage = "Prompting"
  /\ gprompt' = Prompts(gselected, Extracted(gcontent), gparams)
  /\ gstage' = "AwaitingModel"
  /\ UNCHANGED <<gcontent, gparams, gchunks, gselected, gresponse, gparsed,
                 gcorrected, gresult, gerror, modelCalls, retryCount, chunkVars, selVars, moreVars>>

\* generate.ts 173-188: the one call of the model and its answer
ModelResponds ==
  /\ gstage = "AwaitingModel"
  /\ \E r \in ModelResponses :
       /\ gresponse' = r
       /\ IF r.kind = "error"
          THEN Fail("ModelInvocationFailed")
          ELSE gstage' = "Parsing" /\ gerror' = gerror
  /\ modelCalls' = modelCalls + 1
  /\ UNCHANGED <<gcontent, gparams, gchunks, gselected, gprompt, gparsed,
                 gcorrected, gresult, retryCount, chunkVars, selVars, moreVars>>

\* generate.ts 190-196
DoParsing ==
  /\ gstage = "Parsing"
  /\ IF gresponse.valid
     THEN gparsed' = gresponse.value /\ gstage' = "Repairing" /\ gerror' = gerror
     ELSE gparsed' = gparsed /\ Fail("MalformedModelResponse")
  /\ UNCHANGED <<gcontent, gparams, gchunks, gselected, gprompt, gresponse,
                 gcorrected, gresult, modelCalls, retryCount, chunkVars, selVars, moreVars>>

\* generate.ts 198-199
DoRepairing ==
  /\ gstage = "Repairing"
  /\ LET r == validateAndCorrectQuiz(gparsed, gparams)
     IN IF r.threw
        THEN gcorrected' = gcorrected /\ Fail(r.error)
        ELSE gcorrected' = r.value /\ gstage' = "SchemaValidating" /\ gerror' = gerror
  /\ UNCHANGED <<gcontent, gparams, gchunks, gselected, gprompt, gresponse, gparsed,
                 gresult, modelCalls, retryCount, chunkVars, selVars, moreVars>>

DoSchemaValidating_Retry ==
  /\ gstage = "SchemaValidating"
  /\ IF QuizSchema(gcorrected)
     THEN /\ gresult' = [quiz |-> TitleOverride(SchemaData(gcorrected), gparams),
                         sourceQuality |-> gcontent.quality,
                         chunksUsed |-> Len(gselected),
                         totalChunks |-> Len(gchunks),
                         retryCount |-> retryCount]
          /\ gstage' = "Done"
          /\ gerror' = gerror
          /\ retryCount' = retryCount
     ELSE IF retryCount < 1
     THEN gresult' = gresult /\ gstage' = "AwaitingModel" /\ gerror' = gerror
          /\ retryCount' = retryCount + 1
     ELSE gresult' = gresult /\ Fail("SchemaValidationFailed") /\ retryCount' = retryCount
  /\ UNCHANGED <<gcontent, gparams, gchunks, gselected, gprompt, gresponse, gparsed,
                 gcorrected, modelCalls, chunkVars, selVars, moreVars>>

\* generate.ts 201-217 and 79-91
DoSchemaValidating ==
  /\ gstage = "SchemaValidating"
  /\ IF QuizSchema(gcorrected)
     THEN /\ gresult' = [quiz |-> TitleOverride(SchemaData(gcorrected), gparams),
                         sourceQuality |-> gcontent.quality,
                         chunksUsed |-> Len(gselected),
                         totalChunks |-> Len(gchunks),
                         retryCount |-> retryCount]
          /\ gstage' = "Done"
          /\ gerror' = gerror
     ELSE gresult' = gresult /\ Fail("SchemaValidationFailed")
  /\ UNCHANGED <<gcontent, gparams, gchunks, gselected, gprompt, gresponse, gparsed,
                 gcorrected, modelCalls, retryCount, chunkVars, selVars, moreVars>>

GenNext ==
  \/ ValidateContent
  \/ DoChunking
  \/ DoSelecting
  \/ DoPrompting
  \/ ModelResponds
  \/ DoParsing
  \/ DoRepairing
  \/ DoSchemaValidating

SpecGen == GenInit /\ [][GenNext]_vars

(***************************************************************************)
(* Claims about the repair pass, the schema and the generation request.    *)
(***************************************************************************)
RepairErrors == {"AI response is not a valid object", "TypeError"}

\* the request has JSON-decoded the model's answer
Parsed ==
  \/ gstage \in {"Repairing", "SchemaValidating", "Done"}
  \/ gstage = "Failed" /\ gerror \in RepairErrors \cup {"SchemaValidationFailed"}

\* validateAndCorrectQuiz has returned
RepairReturned ==
  \/ gstage \in {"SchemaValidating", "Done"}
  \/ gstage = "Failed" /\ gerror = "SchemaValidationFailed"

\* the questions of a quiz value, section by section
QuestionsOf(quiz) ==
  IF quiz.sections.t # "arr" THEN <<>>
  ELSE [k \in 1..Len(quiz.sections.items) |->
          IF quiz.sections.items[k].questions.t # "arr" THEN <<>>
          ELSE quiz.sections.items[k].questions.items]

RECURSIVE SumLen(_)
SumLen(ss) == IF ss = <<>> THEN 0 ELSE Len(ss[1]) + SumLen(Tail(ss))

CountQuestions(quiz) == SumLen(QuestionsOf(quiz))

IsMcq(question) == question.t = "obj" /\ question.type = Str("mcq")

FourOptionsWithCorrect(question) ==
  /\ question.options.t = "arr"
  /\ Len(question.options.items) = 4
  /\ \E i \in 1..4 : question.options.items[i].id = question.correctOptionId

(***************************************************************************)
(* C4: after validateAndCorrectQuiz every question of type mcq, whatever   *)
(* its options and correctOptionId were (missing, not an array, not 4      *)
(* entries, or 4 entries none of which correctOptionId names), has exactly *)
(* 4 options and a correctOptionId that is the id of one of them.          *)
(***************************************************************************)
C4_McqRepaired ==
  RepairReturned =>
    \A k \in 1..Len(QuestionsOf(gcorrected)) :
      \A i \in 1..Len(QuestionsOf(gcorrected)[k]) :
        IsMcq(QuestionsOf(gcorrected)[k][i]) =>
          FourOptionsWithCorrect(QuestionsOf(gcorrected)[k][i])

C4_Witness ==
  /\ gstage = "SchemaValidating"
  /\ QuestionsOf(gparsed) = <<<<QMcqNoOptions, QMcqWrongCorrect>>>>
  /\ QuestionsOf(gcorrected)[1][1].options = generateFallbackOptions
  /\ QuestionsOf(gcorrected)[1][1].correctOptionId = Str("opt-1")
  /\ QuestionsOf(gcorrected)[1][2].correctOptionId = Str("a")

(***************************************************************************)
(* C5: in every Quiz the generator returns, meta.numQuestions is the       *)
(* number of questions summed over all sections.                           *)
(***************************************************************************)
C5_NumQuestionsIsCount ==
  gstage = "Done" =>
    /\ gresult.quiz.meta.numQuestions.t = "num"
    /\ gresult.quiz.meta.numQuestions.n = CountQuestions(gresult.quiz)

C5_Witness ==
  /\ gstage = "Done"
  /\ gparsed.meta = MetaFull
  /\ gparams.numQuestions = 3
  /\ Len(QuestionsOf(gresult.quiz)) = 2
  /\ CountQuestions(gresult.quiz) = 2
  /\ gresult.quiz.meta.numQuestions.n = 2

(***************************************************************************)
(* C6: every MCQ question of a Quiz that passed repair and strict schema   *)
(* validation has exactly 4 options, pairwise distinct option ids, and a   *)
(* correctOptionId equal to one of the option ids.                         *)
(***************************************************************************)
DistinctOptionIds(question) ==
  \A i, j \in 1..Len(question.options.items) :
    i # j => question.options.items[i].id # question.options.items[j].id

C6_McqInvariant ==
  gstage = "Done" =>
    \A k \in 1..Len(QuestionsOf(gresult.quiz)) :
      \A i \in 1..Len(QuestionsOf(gresult.quiz)[k]) :
        IsMcq(QuestionsOf(gresult.quiz)[k][i]) =>
          /\ FourOptionsWithCorrect(QuestionsOf(gresult.quiz)[k][i])
          /\ DistinctOptionIds(QuestionsOf(gresult.quiz)[k][i])

(***************************************************************************)
(* C7: when the model returns a JSON object without questions that has     *)
(* neither a meta nor a section, the repair pass creates the meta and one  *)
(* default section with zero questions and adds no question, and the       *)
(* request fails at strict schema validation; and no Quiz is ever returned *)
(* for an answer that holds no question.                                   *)
(***************************************************************************)
NeitherMetaNorSections(value) ==
  /\ value.t = "obj"
  /\ ~Truthy(value.meta)
  /\ value.sections.t # "arr" \/ Len(value.sections.items) = 0

C8_ContentTooLimitedExactly ==
  /\ (gstage = "Failed" /\ gerror = "ContentTooLimited") =>
       /\ gcontent.quality = "low"
       /\ Extracted(gcontent).wordCount < 200
       /\ gchunks = <<>>
       /\ gselected = <<>>
       /\ modelCalls = 0
  /\ (gstage # "ValidatingContent"
      /\ gcontent.quality = "low" /\ Extracted(gcontent).wordCount < 200) =>
       gstage = "Failed" /\ gerror = "ContentTooLimited"

C8_Witness ==
  /\ gstage = "Failed"
  /\ gerror = "ContentTooLimited"
  /\ Extracted(gcontent).wordCount = 199
  /\ modelCalls = 0

(***************************************************************************)
(* C9: a request passes through the stages in their order, each at most    *)
(* once, calls the model at most once, never leaves Done or Failed, and    *)
(* never retries: retryCount stays 0.                                      *)
(***************************************************************************)
StageOrder ==
  <<"ValidatingContent", "Chunking", "Selecting", "Prompting", "AwaitingModel", "Parsing",
    "Repairing", "SchemaValidating", "Done">>

StageIndex(stage) == CHOOSE i \in 1..Len(StageOrder) : StageOrder[i] = stage

C9_StagesInOrder ==
  /\ [][/\ gstage \notin {"Done", "Failed"}
        /\ gstage' = "Failed" \/ StageIndex(gstage') = StageIndex(gstage) + 1
        /\ modelCalls' = IF gstage = "AwaitingModel" THEN modelCalls + 1 ELSE modelCalls
        /\ retryCount' = 0]_vars
  /\ [](modelCalls <= 1 /\ retryCount = 0)

C9_Witness ==
  /\ gstage = "Done"
  /\ modelCalls = 1
  /\ gresult.retryCount = 0

(***************************************************************************)
(* C10: validateAndCorrectQuiz never throws, whatever JSON value the model *)
(* returned: a request that has parsed the answer fails only at the strict *)
(* schema validation.                                                      *)
(***************************************************************************)
C10_RepairNeverThrows ==
  (gstage = "Failed" /\ Parsed) => gerror = "SchemaValidationFailed"

(***************************************************************************)
(* Text normalization (src/lib/text-extract.ts, smartNormalizeText).  Here *)
(* a string is a sequence of characters, each named by its class: "sp" a   *)
(* space, "tab", "cr" \r, "nl" \n, "w" a word character, "hy" the hyphen,  *)
(* "ctl" a control character of [\u0000-\u0008\u000E-\u001F\u007F].       *)
(***************************************************************************)
MaxText == 6

TextChars == {"sp", "tab", "cr", "nl", "w", "hy", "ctl"}
\* the characters \s matches
WhiteSpace == {"sp", "tab", "cr", "nl"}

\* the length of the longest prefix of str made of characters of class
RECURSIVE RunLength(_, _)
RunLength(str, class) ==
  IF str = <<>> \/ str[1] \notin class THEN 0 ELSE 1 + RunLength(Tail(str), class)

Drop(str, n) == SubSeq(str, n + 1, Len(str))

Repeat(ch, n) == [i \in 1..n |-> ch]

\* .replace(/[ \t]+/g, ' ')
RECURSIVE CollapseBlanks(_)
CollapseBlanks(str) ==
  IF str = <<>> THEN <<>>
  ELSE IF str[1] \in {"sp", "tab"}
  THEN <<"sp">> \o CollapseBlanks(Drop(str, RunLength(str, {"sp", "tab"})))
  ELSE <<str[1]>> \o CollapseBlanks(Tail(str))

\* .replace(/\r\n/g, '\n')
RECURSIVE ReplaceCrLf(_)
ReplaceCrLf(str) ==
  IF str = <<>> THEN <<>>
  ELSE IF Len(str) >= 2 /\ str[1] = "cr" /\ str[2] = "nl"
  THEN <<"nl">> \o ReplaceCrLf(Drop(str, 2))
  ELSE <<str[1]>> \o ReplaceCrLf(Tail(str))

\* .replace(/\r/g, '\n')
ReplaceCr(str) == [i \in 1..Len(str) |-> IF str[i] = "cr" THEN "nl" ELSE str[i]]

\* .replace(/\n{3,}/g, '\n\n')
RECURSIVE CollapseNewlines(_)
CollapseNewlines(str) ==
  IF str = <<>> THEN <<>>
  ELSE IF str[1] = "nl"
  THEN LET n == RunLength(str, {"nl"})
       IN Repeat("nl", IF n >= 3 THEN 2 ELSE n) \o CollapseNewlines(Drop(str, n))
  ELSE <<str[1]>> \o CollapseNewlines(Tail(str))

\* .replace(/(\w+)-\s*\n\s*(\w+)/g, '$1$2'): matches are taken left to right and
\* the search resumes after the end of each match
RECURSIVE JoinHyphenated(_)
JoinHyphenated(str) ==
  IF str = <<>> THEN <<>>
  ELSE IF str[1] = "w"
  THEN LET a == RunLength(str, {"w"})
           afterWord == Drop(str, a)
           afterHyphen == Drop(afterWord, 1)
           b == RunLength(afterHyphen, WhiteSpace)
           afterSpace == Drop(afterHyphen, b)
           c == RunLength(afterSpace, {"w"})
           matches == /\ afterWord # <<>> /\ afterWord[1] = "hy"
                      /\ \E i \in 1..b : afterHyphen[i] = "nl"
                      /\ c >= 1
       IN IF matches
          THEN Repeat("w", a + c) \o JoinHyphenated(Drop(afterSpace, c))
          ELSE Repeat("w", a) \o JoinHyphenated(afterWord)
  ELSE <<str[1]>> \o JoinHyphenated(Tail(str))

\* .replace(/[\u0000-\u0008\u000B\u000C\u000E-\u001F\u007F]/g, '')
RemoveControl(str) == SelectSeq(str, LAMBDA ch : ch # "ctl")

\* .trim()
RECURSIVE TrimEnd(_)
TrimEnd(str) ==
  IF str = <<>> \/ str[Len(str)] \notin WhiteSpace THEN str
  ELSE TrimEnd(SubSeq(str, 1, Len(str) - 1))

TrimText(str) == TrimEnd(Drop(str, RunLength(str, WhiteSpace)))

smartNormalizeText(input) ==
  TrimText(RemoveControl(JoinHyphenated(CollapseNewlines(ReplaceCr(ReplaceCrLf(
    CollapseBlanks(input)))))))

NormInit ==
  /\ ChunkIdle /\ SelIdle /\ GenIdle /\ ExtIdle /\ RankIdle /\ RateIdle /\ SessIdle
  /\ \E n \in 0..MaxText : nIn \in [1..n -> TextChars]
  /\ nOut = <<>>
  /\ nAgain = <<>>
  /\ npc = "input"

\* cleanedText = smartNormalizeText(text)
Normalize ==
  /\ npc = "input"
  /\ nOut' = smartNormalizeText(nIn)
  /\ npc' = "once"
  /\ UNCHANGED <<nIn, nAgain, chunkVars, selVars, genVars, extVars, rankVars, rateVars, sessVars>>

\* the normalized text is normalized once more
NormalizeAgain ==
  /\ npc = "once"
  /\ nAgain' = smartNormalizeText(nOut)
  /\ npc' = "twice"
  /\ UNCHANGED <<nIn, nOut, chunkVars, selVars, genVars, extVars, rankVars, rateVars, sessVars>>

NormNext == Normalize \/ NormalizeAgain

SpecNorm == NormInit /\ [][NormNext]_vars

(***************************************************************************)
(* C11: normalization is idempotent: normalizing a normalized string       *)
(* returns it unchanged, for every input string.                           *)
(***************************************************************************)
C11_NormalizeIdempotent == npc = "twice" => nAgain = nOut

(***************************************************************************)
(* C12: the normalized string holds no run of three or more newline        *)
(* characters, for every input string.                                     *)
(***************************************************************************)
C12_NoTripleNewline ==
  npc # "input" =>
    \A i \in 1..Len(nOut) :
      ~(i + 2 <= Len(nOut) /\ nOut[i] = "nl" /\ nOut[i + 1] = "nl" /\ nOut[i + 2] = "nl")

(***************************************************************************)
(* The extractor (src/lib/text-extract.ts).  The parsed text is given by   *)
(* what the quality analysis reads off it: its words and length, whether   *)
(* the OCR patterns occur in it, its runs of capitals, and its sentences   *)
(* of more than 10 characters (how many, their total length, how many      *)
(* distinct).                                                              *)
(***************************************************************************)
\* detectOCRIssues
detectOCRIssues(text) ==
  (IF text.il1 THEN <<"Possible OCR confusion between letters and numbers">> ELSE <<>>)
  \o (IF text.punct THEN <<"Possible missing spaces after punctuation">> ELSE <<>>)
  \o (IF text.upperRuns * 100 > text.length
      THEN <<"Excessive uppercase text may indicate OCR issues">> ELSE <<>>)

\* hasGoodCoherence
hasGoodCoherence(text) ==
  IF text.sentences < 3 THEN TRUE
  ELSE IF text.sentenceChars < 20 * text.sentences \/ text.sentenceChars > 200 * text.sentences
  THEN FALSE
  ELSE IF text.uniqueSentences * 10 < 7 * text.sentences THEN FALSE
  ELSE TRUE

\* quality === 'high' ? 'medium' : 'low'
Downgrade(quality) == IF quality = "high" THEN "medium" ELSE "low"

analyzeContentQuality_NoLowStep(text, sourceType) ==
  LET q1 == IF text.words < 300 THEN "medium" ELSE "high"
      w1 == IF text.words < 300
            THEN <<"Document contains limited text (less than 300 words)">> ELSE <<>>
      ocrIssues == IF sourceType = "pdf" THEN detectOCRIssues(text) ELSE <<>>
      q2 == IF Len(ocrIssues) > 0 THEN Downgrade(q1) ELSE q1
      w2 == w1 \o ocrIssues
      q3 == IF ~hasGoodCoherence(text) THEN Downgrade(q2) ELSE q2
      w3 == IF ~hasGoodCoherence(text)
            THEN w2 \o <<"Text appears fragmented or poorly structured">> ELSE w2
  IN [hasImages |-> FALSE, quality |-> q3, warnings |-> w3]

analyzeContentQuality(text, sourceType) ==
  LET q1 == IF text.words < 100 THEN "low"
            ELSE IF text.words < 300 THEN "medium" ELSE "high"
      w1 == IF text.words < 100
            THEN <<"Document contains very little text (less than 100 words)">>
            ELSE IF text.words < 300
            THEN <<"Document contains limited text (less than 300 words)">> ELSE <<>>
      ocrIssues == IF sourceType = "pdf" THEN detectOCRIssues(text) ELSE <<>>
      q2 == IF Len(ocrIssues) > 0 THEN Downgrade(q1) ELSE q1
      w2 == w1 \o ocrIssues
      q3 == IF ~hasGoodCoherence(text) THEN Downgrade(q2) ELSE q2
      w3 == IF ~hasGoodCoherence(text)
            THEN w2 \o <<"Text appears fragmented or poorly structured">> ELSE w2
  IN [hasImages |-> FALSE, quality |-> q3, warnings |-> w3]

\* analyzeAndStructureContent: the text features are those of the cleaned text
analyzeAndStructureContent(text, sourceType, pageCount) ==
  LET metadata == analyzeContentQuality(text, sourceType)
  IN [empty |-> FALSE, wordCount |-> text.words, pageCount |-> pageCount,
      hasImages |-> metadata.hasImages, quality |-> metadata.quality,
      warnings |-> metadata.warnings]

\* the result for a source without text
EmptyContent(pageCount, warning) ==
  [empty |-> TRUE, wordCount |-> 0, pageCount |-> pageCount, hasImages |-> FALSE,
   quality |-> "low", warnings |-> <<"No extractable text found", warning>>]

extractTextFromPdf(source) ==
  IF source.rawEmpty
  THEN EmptyContent(source.numpages, "Document may be scanned or image-based")
  ELSE analyzeAndStructureContent(source.text, "pdf", source.numpages)

\* messages.map(msg => msg.message).filter(Boolean)
extractTextFromDocx(source) ==
  IF source.rawEmpty
  THEN EmptyContent(Undefined, "Document may be corrupted or password-protected")
  ELSE LET content == analyzeAndStructureContent(source.text, "docx", Undefined)
       IN [content EXCEPT
             !.warnings = @ \o SelectSeq(source.messages, LAMBDA m : m # "")]

NoText ==
  [words |-> 0, length |-> 0, il1 |-> FALSE, punct |-> FALSE, upperRuns |-> 0,
   sentences |-> 0, sentenceChars |-> 0, uniqueSentences |-> 0]

\* the texts of the extractor runs; a text of n words is taken 6n characters long
SourceTexts ==
  {NoText} \cup
  {[words |-> w, length |-> 6 * w, il1 |-> i, punct |-> p,
    upperRuns |-> IF u THEN (6 * w) \div 100 + 1 ELSE 0,
    sentences |-> c.sentences, sentenceChars |-> c.sentenceChars,
    uniqueSentences |-> c.uniqueSentences] :
     w \in {50, 99, 100, 299, 300}, i \in BOOLEAN, p \in BOOLEAN, u \in BOOLEAN,
     c \in {[sentences |-> 0, sentenceChars |-> 0, uniqueSentences |-> 0],
            [sentences |-> 5, sentenceChars |-> 250, uniqueSentences |-> 5],
            [sentences |-> 5, sentenceChars |-> 250, uniqueSentences |-> 3],
            [sentences |-> 5, sentenceChars |-> 60, uniqueSentences |-> 5],
            [sentences |-> 5, sentenceChars |-> 1500, uniqueSentences |-> 5]}}

ExtractInit ==
  /\ ChunkIdle /\ SelIdle /\ GenIdle /\ NormIdle /\ RankIdle /\ RateIdle /\ SessIdle
  /\ \E t \in {"pdf", "docx"}, e \in BOOLEAN, x \in SourceTexts, n \in {0, 3},
        m \in {<<>>, <<"Unrecognised paragraph style">>, <<"", "Unrecognised paragraph style">>} :
       /\ e => x = NoText
       /\ t = "pdf" => m = <<>>
       /\ t = "docx" => n = 0
       /\ xIn = [sourceType |-> t, rawEmpty |-> e, text |-> x, numpages |-> n, messages |-> m]
  /\ xOut = NoValue
  /\ xpc = "input"

Extract ==
  /\ xpc = "input"
  /\ xOut' = IF xIn.sourceType = "pdf" THEN extractTextFromPdf(xIn) ELSE extractTextFromDocx(xIn)
  /\ xpc' = "done"
  /\ UNCHANGED <<xIn, chunkVars, selVars, genVars, normVars, rankVars, rateVars, sessVars>>

ExtractNext == Extract

SpecExtract == ExtractInit /\ [][ExtractNext]_vars

RECURSIVE DowngradeTimes(_, _)
DowngradeTimes(quality, n) ==
  IF n = 0 THEN quality ELSE DowngradeTimes(Downgrade(quality), n - 1)

QualityByWords(words) ==
  IF words < 100 THEN "low" ELSE IF words < 300 THEN "medium" ELSE "high"

C14_OneStepPerOcrCategory ==
  (xpc = "done" /\ xIn.sourceType = "pdf" /\ ~xIn.rawEmpty) =>
    LET issues == detectOCRIssues(xIn.text)
        beforeCoherence == DowngradeTimes(QualityByWords(xIn.text.words), Len(issues))
    IN /\ xOut.quality = IF hasGoodCoherence(xIn.text) THEN beforeCoherence
                         ELSE Downgrade(beforeCoherence)
       /\ \A i \in 1..Len(issues) : \E j \in 1..Len(xOut.warnings) : xOut.warnings[j] = issues[i]

(***************************************************************************)
(* Claims about the chunks of one chunking run.                            *)
(***************************************************************************)
\* where a piece of text stands in the document
Position(piece) == piece.par * 1000 + piece.idx
FirstPosition(chunk) == Position(chunk.content[1])
LastPosition(chunk) == Position(chunk.content[Len(chunk.content)])

\* the run took the structure-aware strategy
StructureAware ==
  /\ cpc = "done"
  /\ estimateTokens(ExtractedContent(doc).text) > opts.targetTokens
  /\ opts.preserveStructure
  /\ Len(ExtractedContent(doc).sections) > 0

HeadingsUpTo(par) ==
  {i \in 1..Len(ExtractedContent(doc).sections) :
     /\ ExtractedContent(doc).sections[i].type = "heading"
     /\ ExtractedContent(doc).sections[i].title \notin {Undefined, ""}
     /\ ExtractedContent(doc).sections[i].content[1].par <= par}

NearestHeading(par) ==
  IF HeadingsUpTo(par) = {} THEN {Undefined, ""}
  ELSE {ExtractedContent(doc).sections[
          CHOOSE i \in HeadingsUpTo(par) : \A j \in HeadingsUpTo(par) : j <= i].title}

C16_ContextIsPrecedingHeading ==
  StructureAware =>
    \A i \in 1..Len(chunks) :
      chunks[i].context \in NearestHeading(chunks[i].content[1].par)
                            \cup NearestHeading(chunks[i].content[1].par - 1)

(***************************************************************************)
(* C17: every chunk intelligentChunking returns has at least 5 words and   *)
(* at least 20 characters of trimmed content, on every path, the           *)
(* single-chunk return for a short document included.                      *)
(***************************************************************************)
C17_NoNoiseChunk ==
  cpc = "done" =>
    \A i \in 1..Len(chunks) :
      chunks[i].wordCount >= 5 /\ Chars(chunks[i].content) >= 20

(***************************************************************************)
(* The ranking run: rankAndOptimizeChunks applied to the chunks of a large *)
(* document, numbered in document order.  A chunk is an ordinary one       *)
(* (importance 0.5), an important one (0.9) or a noise chunk of 2 words.   *)
(***************************************************************************)
MaxExtra == 2
MaxHigh == 2

RankChunk(i, kind) ==
  LET sentence == IF kind = "noise" THEN STiny ELSE SShort
      content == <<[s |-> sentence, sep |-> "none", par |-> i, idx |-> 1]>>
  IN [id |-> ChunkId(i - 1),
      content |-> content,
      tokenCount |-> estimateTokens(content),
      wordCount |-> countWords(content),
      type |-> "paragraph",
      importance |-> IF kind = "high" THEN 90 ELSE 50,
      topics |-> extractTopics(content),
      context |-> Undefined,
      sourceSection |-> NoSection]

RankInit ==
  /\ ChunkIdle /\ SelIdle /\ GenIdle /\ NormIdle /\ ExtIdle /\ RateIdle /\ SessIdle
  /\ \E n \in (maxChunks - 1)..(maxChunks + MaxExtra), p \in BOOLEAN :
       \E high \in [1..MaxHigh -> {0, 1, 2, 13, maxChunks, maxChunks + 1, n}],
          noise \in {0, 1, 13, n} :
         rIn = [chunks |-> [i \in 1..n |->
                              RankChunk(i, IF i = noise THEN "noise"
                                           ELSE IF \E k \in 1..MaxHigh : high[k] = i THEN "high"
                                           ELSE "ordinary")],
                options |-> [DEFAULT_OPTIONS EXCEPT !.prioritizeImportant = p]]
  /\ rOut = <<>>
  /\ rpc = "input"

Rank ==
  /\ rpc = "input"
  /\ rOut' = rankAndOptimizeChunks(rIn.chunks, rIn.options)
  /\ rpc' = "done"
  /\ UNCHANGED <<rIn, chunkVars, selVars, genVars, normVars, extVars, rateVars, sessVars>>

RankNext == Rank

SpecRank == RankInit /\ [][RankNext]_vars

(***************************************************************************)
(* C18: at most 25 chunks are returned; when more than 25 meaningful       *)
(* chunks exist, 25 of them are kept and the removed ones are the lowest   *)
(* ranked: with prioritizeImportant no removed chunk has a higher          *)
(* importance than a kept one, without it the kept chunks are the first 25 *)
(* meaningful chunks in document order.                                    *)
(***************************************************************************)
Meaningful(cs) == SelectSeq(cs, LAMBDA c : c.wordCount >= 5 /\ Chars(c.content) >= 20)

Members(cs) == {cs[i] : i \in 1..Len(cs)}

C18_AtMost25LowestRemoved ==
  rpc = "done" =>
    LET meaningful == Meaningful(rIn.chunks)
        kept == Members(rOut)
        removed == Members(meaningful) \ kept
    IN /\ Len(rOut) <= 25
       /\ kept \subseteq Members(meaningful)
       /\ Len(meaningful) <= 25 => removed = {}
       /\ Len(meaningful) > 25 =>
            /\ Len(rOut) = 25
            /\ Cardinality(kept) = 25
            /\ rIn.options.prioritizeImportant =>
                 \A r \in removed : \A k \in kept : r.importance <= k.importance
            /\ ~rIn.options.prioritizeImportant => rOut = SubSeq(meaningful, 1, 25)

C18_Witness ==
  /\ rpc = "done"
  /\ rIn.options.prioritizeImportant
  /\ Len(rIn.chunks) = 27
  /\ Len(Meaningful(rIn.chunks)) = 26
  /\ rIn.chunks[27].importance = 90
  /\ rIn.chunks[27] \in Members(rOut)
  /\ rIn.chunks[26] \notin Members(rOut)
  /\ Len(rOut) = 25

(***************************************************************************)
(* C19 as stated: whenever params.quizName is a non-empty string the       *)
(* returned Quiz has meta.title equal to params.quizName; when quizName is *)
(* absent or empty, meta.title is the title of the validated model output. *)
(***************************************************************************)
C19_TitleIsQuizName ==
  gstage = "Done" =>
    IF gparams.quizName \notin {Undefined, ""}
    THEN gresult.quiz.meta.title = Str(gparams.quizName)
    ELSE gresult.quiz.meta.title = SchemaData(gcorrected).meta.title

(***************************************************************************)
(* C19 as amended: whenever params.quizName.trim() is non-empty the        *)
(* returned Quiz has meta.title equal to params.quizName.trim(); when      *)
(* quizName is absent, empty or only white space, meta.title is the title  *)
(* of the validated model output.                                          *)
(***************************************************************************)
C19_TitleIsTrimmedQuizName ==
  gstage = "Done" =>
    IF gparams.quizName \notin {Undefined, ""} /\ Trim(gparams.quizName) # ""
    THEN gresult.quiz.meta.title = Str(Trim(gparams.quizName))
    ELSE gresult.quiz.meta.title = SchemaData(gcorrected).meta.title

C19_Witness ==
  /\ gstage = "Done"
  /\ gparams.quizName = " My Quiz "
  /\ gresult.quiz.meta.title = Str("My Quiz")
  /\ SchemaData(gcorrected).meta.title # Str("My Quiz")

(***************************************************************************)
(* The rate limiter (src/lib/rate-limit.ts).  Time is counted in units of  *)
(* which a window holds RateWindow; the routes' limits (10 per minute, 5   *)
(* per 5 minutes, 30 per minute) are stood for by RateLimit per            *)
(* RateWindow.                                                             *)
(***************************************************************************)
RateLimit == 2
RateWindow == 3
MaxTime == 6

RateKeys == {"ip-1", "ip-2"}

NoEntry == [present |-> FALSE, count |-> 0, resetAt |-> 0]

RateInit ==
  /\ ChunkIdle /\ SelIdle /\ GenIdle /\ NormIdle /\ ExtIdle /\ RankIdle /\ SessIdle
  /\ inMemoryStore = [k \in RateKeys |-> NoEntry]
  /\ now = 0
  /\ granted = [k \in RateKeys |-> <<>>]
  /\ allowResult = NoValue

\* the clock advances
Tick ==
  /\ now < MaxTime
  /\ now' = now + 1
  /\ UNCHANGED <<inMemoryStore, granted, allowResult, chunkVars, selVars, genVars, normVars,
                 extVars, rankVars, sessVars>>

allowRequest(key, limit, windowMs) ==
  LET entry == inMemoryStore[key]
  IN /\ IF ~entry.present \/ entry.resetAt <= now
        THEN /\ inMemoryStore' = [inMemoryStore EXCEPT
                                    ![key] = [present |-> TRUE, count |-> 1,
                                              resetAt |-> now + windowMs]]
             /\ allowResult' = [success |-> TRUE, limit |-> limit, remaining |-> limit - 1,
                                reset |-> now + windowMs]
        ELSE IF entry.count >= limit
        THEN /\ inMemoryStore' = inMemoryStore
             /\ allowResult' = [success |-> FALSE, limit |-> limit, remaining |-> 0,
                                reset |-> entry.resetAt]
        ELSE /\ inMemoryStore' = [inMemoryStore EXCEPT ![key].count = entry.count + 1]
             /\ allowResult' = [success |-> TRUE, limit |-> limit,
                                remaining |-> limit - (entry.count + 1),
                                reset |-> entry.resetAt]
     /\ granted' = IF allowResult'.success
                   THEN [granted EXCEPT ![key] = Append(@, now)]
                   ELSE granted
     /\ UNCHANGED <<now, chunkVars, selVars, genVars, normVars, extVars, rankVars, sessVars>>

\* a route calls allowRequest for the caller's key
Request == \E key \in RateKeys : allowRequest(key, RateLimit, RateWindow)

RateNext == Tick \/ Request

SpecRate == RateInit /\ [][RateNext]_vars

(***************************************************************************)
(* C20: the limiter is a sliding window: for each key, in every time       *)
(* interval of length windowMs at most `limit` calls of allowRequest       *)
(* return success, also when the interval straddles a reset of the stored  *)
(* counter.                                                                *)
(***************************************************************************)
GrantedWithin(key, from, length) ==
  Cardinality({i \in 1..Len(granted[key]) :
                 from <= granted[key][i] /\ granted[key][i] < from + length})

C20_SlidingWindow ==
  \A key \in RateKeys : \A from \in 0..MaxTime :
    GrantedWithin(key, from, RateWindow) <= RateLimit

(***************************************************************************)
(* The buffer of the chunking loops after each section (structure-aware)   *)
(* or paragraph (semantic) of the run.                                     *)
(***************************************************************************)
Semantic ==
  /\ cpc = "done"
  /\ estimateTokens(ExtractedContent(doc).text) > opts.targetTokens
  /\ ~(opts.preserveStructure /\ Len(ExtractedContent(doc).sections) > 0)

\* the items the loop of the run goes through
LoopItems ==
  IF StructureAware
  THEN [k \in 1..Len(ExtractedContent(doc).sections) |->
          ExtractedContent(doc).sections[k].content]
  ELSE RefineParagraphs(SplitParagraphs(ExtractedContent(doc).text), opts)

\* the item iteration k of the loop handles
LoopItem(k) == Head(SubSeq(LoopItems, k, k))

\* the loop's variables after its first k iterations
LoopState(k) ==
  IF StructureAware
  THEN SectionLoop([chunks |-> <<>>, cur |-> <<>>, curTokens |-> 0, context |-> "",
                    chunkIndex |-> 0],
                   SubSeq(ExtractedContent(doc).sections, 1, k), 1, opts)
  ELSE ParagraphLoop([chunks |-> <<>>, cur |-> <<>>, curTokens |-> 0, chunkIndex |-> 0],
                     SubSeq(LoopItems, 1, k), 1, opts)

\* the loop's variables before its first iteration and after each one, in order
RECURSIVE LoopTrace(_, _, _)
LoopTrace(trace, inputs, k) ==
  IF k > Len(inputs) THEN trace
  ELSE LET acc == trace[Len(trace)]
           step == IF StructureAware
                   THEN SectionLoop(acc, SubSeq(inputs, k, k), 1, opts)
                   ELSE ParagraphLoop([chunks |-> acc.chunks, cur |-> acc.cur,
                                       curTokens |-> acc.curTokens,
                                       chunkIndex |-> acc.chunkIndex],
                                      SubSeq(inputs, k, k), 1, opts)
       IN LoopTrace(Append(trace, step), inputs, k + 1)

\* iteration k flushes the buffer and seeds the next one with an overlap
Flushes(k) ==
  /\ Len(LoopState(k - 1).cur) > 0
  /\ LoopState(k - 1).curTokens + estimateTokens(LoopItem(k)) > opts.targetTokens
  /\ StructureAware => estimateTokens(LoopItem(k)) <= opts.maxTokens

(***************************************************************************)
(* C22: the overlap seed createOverlap builds from a flushed buffer has at *)
(* most overlapTokens estimated tokens, the next buffer's token counter    *)
(* starts at the seed's estimated tokens, and the counter is never below   *)
(* the estimated tokens of the buffer.                                     *)
(***************************************************************************)
C22_SeedWithinOverlapBudget ==
  (cpc = "done" /\ (StructureAware \/ Semantic)) =>
    LET items == LoopItems
        trace == LoopTrace(<<LoopState(0)>>,
                           IF StructureAware THEN ExtractedContent(doc).sections ELSE items, 1)
    IN \A k \in 1..Len(items) :
         LET item == Head(SubSeq(items, k, k))
             before == Head(SubSeq(trace, k, k))
             later == Head(SubSeq(trace, k + 1, k + 1))
             flushes == /\ Len(before.cur) > 0
                        /\ before.curTokens + estimateTokens(item) > opts.targetTokens
                        /\ StructureAware => estimateTokens(item) <= opts.maxTokens
             seed == createOverlap(before.cur, opts.overlapTokens)
         IN /\ flushes =>
                 /\ estimateTokens(seed) <= opts.overlapTokens
                 /\ later.cur = (IF Len(seed) > 0 THEN <<seed>> ELSE <<>>) \o <<item>>
                 /\ later.curTokens = estimateTokens(seed) + estimateTokens(item)
            /\ Len(later.cur) > 0 =>
                 later.curTokens >= estimateTokens(Join(later.cur, "blank"))

C22_Witness ==
  /\ StructureAware
  /\ \E k \in 1..Len(LoopItems) :
       /\ Flushes(k)
       /\ Len(LoopState(k - 1).cur) >= 2
       /\ createOverlap(LoopState(k - 1).cur, opts.overlapTokens) # <<>>
       /\ LoopState(k).curTokens > estimateTokens(LoopItem(k))

\* the last k whole items of a buffer preceded by the last m sentences of the
\* item before them, joined as createOverlap joins them
TrailingPart(items, k, m) ==
  LET whole == Join(LastOf(items, k), "blank")
      sentences == IF k < Len(items) THEN SplitSentences(items[Len(items) - k]) ELSE <<>>
      partial == Join(SubSeq(sentences, Len(sentences) - m + 1, Len(sentences)), "space")
  IN IF m = 0 THEN (IF k = 0 THEN <<>> ELSE whole)
     ELSE IF k = 0 THEN partial
     ELSE Cat(partial, "space", whole)

IsTrailingPart(text, items) ==
  \E k \in 0..Len(items) :
    \E m \in 0..(IF k < Len(items) THEN Len(SplitSentences(items[Len(items) - k])) ELSE 0) :
      text = TrailingPart(items, k, m)

(***************************************************************************)
(* C26: the text createOverlap returns for a flushed buffer is a           *)
(* contiguous trailing part of the buffer: its last k whole items and/or   *)
(* the last m sentences of the item before them, in order, with nothing    *)
(* skipped in between.                                                     *)
(***************************************************************************)
C26_OverlapIsTrailingPart ==
  (StructureAware \/ Semantic) =>
    \A k \in 1..Len(LoopItems) :
      Flushes(k) =>
        IsTrailingPart(createOverlap(LoopState(k - 1).cur, opts.overlapTokens),
                       LoopState(k - 1).cur)

\* the places in the document the pieces of a string come from
Places(str) == {Position(str[i]) : i \in 1..Len(str)}

(***************************************************************************)
(* C27: in the structure-aware strategy a chunk that carries a             *)
(* sourceSection contains that section's content; a chunk cut out of an    *)
(* oversized section is wholly taken from its sourceSection.               *)
(***************************************************************************)
C27_SourceSectionInChunk ==
  StructureAware =>
    \A i \in 1..Len(chunks) :
      chunks[i].sourceSection.present =>
        \/ Places(chunks[i].sourceSection.content) \subseteq Places(chunks[i].content)
        \/ Places(chunks[i].content) \subseteq Places(chunks[i].sourceSection.content)

(***************************************************************************)
(* C23: whenever the chunker returned at least one chunk, the list         *)
(* selectOptimalChunks hands to prompt construction is not empty, so the   *)
(* model is never called with zero content blocks, also when a single      *)
(* chunk is above the budget of 15000 tokens.                              *)
(***************************************************************************)
C23_SelectionNotEmpty ==
  (gstage \in {"Prompting", "AwaitingModel", "Parsing", "Repairing", "SchemaValidating", "Done"}
   /\ Len(gchunks) >= 1) =>
    Len(gselected) >= 1

\* the truth value a fallback explanation of a true-false question states
StatedAnswer(explanation) ==
  IF explanation = Str("This statement is true according to the information presented in the document.")
  THEN Bool("true")
  ELSE IF explanation = Str("This statement is false according to the information presented in the document.")
  THEN Bool("false")
  ELSE Undef

(***************************************************************************)
(* C24: for a true-false question that came without an explanation, the    *)
(* fallback explanation of the repair pass states the truth value of the   *)
(* question's answer after repair, also when the answer was missing or no  *)
(* boolean and was set to true.                                            *)
(***************************************************************************)
C24_FallbackStatesAnswer ==
  RepairReturned =>
    \A k \in 1..Len(QuestionsOf(gparsed)) :
      \A i \in 1..Len(QuestionsOf(gparsed)[k]) :
        (/\ QuestionsOf(gparsed)[k][i].type = Str("true-false")
         /\ ~Truthy(QuestionsOf(gparsed)[k][i].explanation)) =>
          StatedAnswer(QuestionsOf(gcorrected)[k][i].explanation)
            = QuestionsOf(gcorrected)[k][i].answer

\* the questions of a quiz value as one list
RECURSIVE Flatten(_)
Flatten(ss) == IF ss = <<>> THEN <<>> ELSE ss[1] \o Flatten(Tail(ss))

(***************************************************************************)
(* C25: in every Quiz the generator returns the ids of all questions, of   *)
(* all sections together, are pairwise distinct, ids q-<n> given by the    *)
(* repair pass and ids given by the model alike.                           *)
(***************************************************************************)
C25_QuestionIdsDistinct ==
  gstage = "Done" =>
    LET questions == Flatten(QuestionsOf(gresult.quiz))
    IN \A i, j \in 1..Len(questions) : i # j => questions[i].id # questions[j].id

(***************************************************************************)
(* Quiz sessions: the session store (src/lib/quiz/session-store.ts), the   *)
(* session API (GET and POST of /api/quiz/session/[sessionId]) and the     *)
(* QuizTaker component with its QuizTimer.  A question is named by its     *)
(* number in the quiz; times are whole units of the clock.  Requests are   *)
(* within the rate limit of the API.                                       *)
(***************************************************************************)
NumQuestions == 2
MaxStores == 2
MaxClock == 2
ValidityHours == 1
TimeLimit == 2

SessionIds == {"s1", "s2"}
Stores == 1..MaxStores
\* the session the QuizTaker page was opened for, served by the first store
TakerSession == "s1"

NewDate(n) == [t |-> "date", v |-> n]
NoDate == [t |-> "undef", v |-> 0]
toISOString(date) == [t |-> "iso", v |-> date.v]

NoSession ==
  [present |-> FALSE, id |-> "", randomizeQuestionOrder |-> FALSE, questionOrder |-> <<>>,
   expiresAt |-> NoDate, isStarted |-> FALSE, startedAt |-> NoDate, isCompleted |-> FALSE,
   completedAt |-> NoDate, currentQuestionIndex |-> 0, answers |-> <<>>]

\* the session object of the share route and of createDemoSession
NewSession(id, randomize, today) ==
  [present |-> TRUE, id |-> id, randomizeQuestionOrder |-> randomize, questionOrder |-> <<>>,
   expiresAt |-> NewDate(today + ValidityHours), isStarted |-> FALSE, startedAt |-> NoDate,
   isCompleted |-> FALSE, completedAt |-> NoDate, currentQuestionIndex |-> 0,
   answers |-> <<>>]

serializeSession(session) ==
  [session EXCEPT !.expiresAt = toISOString(@),
                  !.startedAt = IF @.t = "undef" THEN @ ELSE toISOString(@),
                  !.completedAt = IF @.t = "undef" THEN @ ELSE toISOString(@)]

deserializeSession(data) ==
  [data EXCEPT !.expiresAt = NewDate(@.v),
               !.startedAt = IF @.t = "undef" THEN NoDate ELSE NewDate(@.v),
               !.completedAt = IF @.t = "undef" THEN NoDate ELSE NewDate(@.v)]

\* the Map after loadSessions: entries of the file that have not expired are set,
\* the other entries of the Map stay
loadSessions(map, file, today) ==
  [id \in SessionIds |->
     IF file[id].present /\ today <= deserializeSession(file[id]).expiresAt.v
     THEN deserializeSession(file[id])
     ELSE map[id]]

\* the file after saveSessions: the whole Map, serialized
saveSessions(map) ==
  [id \in SessionIds |-> IF map[id].present THEN serializeSession(map[id]) ELSE NoSession]

create(map, file, session) ==
  LET set == [map EXCEPT ![session.id] = session]
  IN [sessions |-> set, file |-> saveSessions(set)]

get(map, file, id, today) ==
  LET loaded == IF map[id].present THEN map ELSE loadSessions(map, file, today)
      deleted == [loaded EXCEPT ![id] = NoSession]
  IN IF ~loaded[id].present
     THEN [sessions |-> loaded, file |-> file, session |-> NoSession]
     ELSE IF today > loaded[id].expiresAt.v
     THEN [sessions |-> deleted, file |-> saveSessions(deleted), session |-> NoSession]
     ELSE [sessions |-> loaded, file |-> file, session |-> loaded[id]]

\* { ...session, ...updates }
Spread(session, updates) ==
  [f \in DOMAIN session |-> IF f \in DOMAIN updates THEN updates[f] ELSE session[f]]

update(map, file, id, updates, today) ==
  LET got == get(map, file, id, today)
      updatedSession == Spread(got.session, updates)
      set == [got.sessions EXCEPT ![id] = updatedSession]
  IN IF ~got.session.present
     THEN [sessions |-> got.sessions, file |-> got.file, session |-> NoSession]
     ELSE [sessions |-> set, file |-> saveSessions(set), session |-> updatedSession]

\* the questions of the quiz in the order of its sections
allQuestions == [k \in 1..NumQuestions |-> k]

\* what shuffleArray can return
Orders == {o \in [1..NumQuestions -> 1..NumQuestions] : \A a, b \in 1..NumQuestions : a # b => o[a] # o[b]}

\* shuffled is what shuffleArray returns in this call
getQuizQuestions(session, shuffled) ==
  IF Len(session.questionOrder) > 0
  THEN session.questionOrder
  ELSE IF session.randomizeQuestionOrder THEN shuffled ELSE allQuestions

\* questions[index], 0 for undefined
QuestionAt(questions, index) == IF index + 1 <= Len(questions) THEN questions[index + 1] ELSE 0

QuizAnswerSchema(body) ==
  /\ body.answer.t \in {"str", "bool"}
  /\ body.timeSpentSeconds >= 0

NoAnswerResult == [isCompleted |-> FALSE, nextQuestion |-> 0, currentQuestion |-> 0]

\* GET /api/quiz/session/[sessionId]
GET(map, file, sessionId, shuffled, today) ==
  LET got == get(map, file, sessionId, today)
      questions == getQuizQuestions(got.session, shuffled)
  IN IF ~got.session.present
     THEN [sessions |-> got.sessions, file |-> got.file, status |-> 404, accepted |-> FALSE,
           session |-> NoSession, currentQuestion |-> 0]
     ELSE [sessions |-> got.sessions, file |-> got.file, status |-> 200, accepted |-> FALSE,
           session |-> got.session,
           currentQuestion |-> QuestionAt(questions, got.session.currentQuestionIndex)]

\* a Response that is an error: the handler has changed nothing after its get
Rejected(got, code) ==
  [sessions |-> got.sessions, file |-> got.file, status |-> code, accepted |-> FALSE,
   isCompleted |-> FALSE, nextQuestion |-> 0, currentQuestion |-> 0]

PostStart_Again(got, sessionId, today) ==
  LET started == update(got.sessions, got.file, sessionId,
                        [isStarted |-> TRUE, startedAt |-> NewDate(today)], today)
  IN [sessions |-> started.sessions, file |-> started.file, status |-> 200,
      accepted |-> TRUE, isCompleted |-> FALSE, nextQuestion |-> 0, currentQuestion |-> 0]

\* POST with body.action === "start"
PostStart(got, sessionId, today) ==
  LET started == update(got.sessions, got.file, sessionId,
                        [isStarted |-> TRUE, startedAt |-> NewDate(today)], today)
  IN IF got.session.isStarted THEN Rejected(got, 400)
     ELSE [sessions |-> started.sessions, file |-> started.file, status |-> 200,
           accepted |-> TRUE, isCompleted |-> FALSE, nextQuestion |-> 0,
           currentQuestion |-> 0]

\* POST with body.action === "answer"
PostAnswer(got, sessionId, body, shuffled, today) ==
  LET session == got.session
      questions == getQuizQuestions(session, shuffled)
      currentQuestion == QuestionAt(questions, session.currentQuestionIndex)
      newAnswers == Append(session.answers,
                           [questionId |-> body.questionId, answer |-> body.answer])
      nextQuestionIndex == session.currentQuestionIndex + 1
      isCompleted == nextQuestionIndex >= Len(questions)
      answered == update(got.sessions, got.file, sessionId,
                         [answers |-> newAnswers, currentQuestionIndex |-> nextQuestionIndex,
                          isCompleted |-> isCompleted,
                          completedAt |-> IF isCompleted THEN NewDate(today) ELSE NoDate],
                         today)
  IN IF ~QuizAnswerSchema(body) THEN Rejected(got, 400)
     ELSE IF ~session.isStarted THEN Rejected(got, 400)
     ELSE IF session.isCompleted THEN Rejected(got, 400)
     ELSE IF currentQuestion = 0 \/ currentQuestion # body.questionId
     THEN [Rejected(got, 400) EXCEPT !.currentQuestion = currentQuestion]
     ELSE [sessions |-> answered.sessions, file |-> answered.file, status |-> 200,
           accepted |-> TRUE, isCompleted |-> isCompleted,
           nextQuestion |-> IF isCompleted THEN 0
                            ELSE QuestionAt(questions, nextQuestionIndex),
           currentQuestion |-> currentQuestion]

\* POST /api/quiz/session/[sessionId]
POST(map, file, sessionId, body, shuffled, today) ==
  LET got == get(map, file, sessionId, today)
  IN IF ~got.session.present THEN Rejected(got, 404)
     ELSE IF body.action = "start" THEN PostStart(got, sessionId, today)
     ELSE IF body.action = "answer" THEN PostAnswer(got, sessionId, body, shuffled, today)
     ELSE Rejected(got, 400)

StartBody == [action |-> "start", questionId |-> 0, answer |-> Null, timeSpentSeconds |-> 0]
AnswerBody(questionId, answer) ==
  [action |-> "answer", questionId |-> questionId, answer |-> answer, timeSpentSeconds |-> 1]

\* what a page can send as answer: an option id, or null when nothing is selected
Answers == {Str("opt-1"), Null}

NoResponse ==
  [op |-> "none", id |-> "", status |-> 0, questionId |-> 0,
   currentQuestion |-> 0, forced |-> FALSE]

\* a handler of store i has run with result r: the store and the file are as it left them
Handled(i, id, op, body, r, forced) ==
  /\ sessions' = [sessions EXCEPT ![i] = r.sessions]
  /\ sessionsFile' = r.file
  /\ latest' = IF r.accepted THEN [latest EXCEPT ![id] = r.sessions[id]] ELSE latest
  /\ startCount' = IF r.accepted /\ op = "start" /\ startCount[id] < 2
                   THEN [startCount EXCEPT ![id] = @ + 1]
                   ELSE startCount
  /\ response' = [op |-> op, id |-> id, status |-> r.status,
                  questionId |-> body.questionId, currentQuestion |-> r.currentQuestion,
                  forced |-> forced]

NoTakerSession == [isStarted |-> FALSE, isCompleted |-> FALSE, loaded |-> FALSE]

SessionInit ==
  /\ ChunkIdle /\ SelIdle /\ GenIdle /\ NormIdle /\ ExtIdle /\ RankIdle /\ RateIdle
  /\ sessionsFile = [id \in SessionIds |-> NoSession]
  /\ sessions = [i \in Stores |-> [id \in SessionIds |-> NoSession]]
  /\ clock = 0
  /\ latest = [id \in SessionIds |-> NoSession]
  /\ response = NoResponse
  /\ startCount = [id \in SessionIds |-> 0]
  /\ qtLoading = TRUE
  /\ qtSession = NoTakerSession
  /\ qtCurrentQuestion = 0
  /\ qtSelectedAnswer = Null
  /\ qtError = FALSE
  /\ timeLeft = TimeLimit
  /\ hasCalledTimeUp = FALSE

\* what shuffleArray can return while store i handles a request for session id: it is
\* called only for a session that asks for a random order
Shuffles(i, id) ==
  LET session == get(sessions[i], sessionsFile, id, clock).session
  IN IF session.present /\ session.randomizeQuestionOrder THEN Orders ELSE {allQuestions}

OtherRuns == <<chunkVars, selVars, genVars, normVars, extVars, rankVars, rateVars>>

\* new Date() gives a later time
SessTick ==
  /\ clock < MaxClock
  /\ clock' = clock + 1
  /\ UNCHANGED <<sessionsFile, sessions, latest, response, startCount, takerVars, OtherRuns>>

\* the share route (or createDemoSession) on store i creates a session with a new id
Share(i, id) ==
  \E randomize \in BOOLEAN :
    /\ ~latest[id].present
    /\ LET r == create(sessions[i], sessionsFile, NewSession(id, randomize, clock))
       IN /\ sessions' = [sessions EXCEPT ![i] = r.sessions]
          /\ sessionsFile' = r.file
          /\ latest' = [latest EXCEPT ![id] = r.sessions[id]]
          /\ response' = [NoResponse EXCEPT !.op = "share", !.id = id, !.status = 200]
    /\ UNCHANGED <<clock, startCount, takerVars, OtherRuns>>

\* the process of store i starts anew: the constructor loads the file into an empty Map
Restart(i) ==
  /\ sessions' = [sessions EXCEPT
                    ![i] = loadSessions([id \in SessionIds |-> NoSession], sessionsFile, clock)]
  /\ sessions'[i] # sessions[i]
  /\ UNCHANGED <<sessionsFile, clock, latest, response, startCount, takerVars, OtherRuns>>

\* some client sends GET for a session to store i
RequestGet(i, id) ==
  \E shuffled \in Shuffles(i, id) :
    /\ Handled(i, id, "get", StartBody, GET(sessions[i], sessionsFile, id, shuffled, clock), FALSE)
    /\ UNCHANGED <<clock, takerVars, OtherRuns>>

\* some client sends POST {action: "start"} to store i
RequestStart(i, id) ==
  \E shuffled \in Shuffles(i, id) :
    /\ Handled(i, id, "start", StartBody,
               POST(sessions[i], sessionsFile, id, StartBody, shuffled, clock), FALSE)
    /\ UNCHANGED <<clock, takerVars, OtherRuns>>

\* some client sends POST {action: "answer", ...} to store i
RequestAnswer(i, id) ==
  \E shuffled \in Shuffles(i, id), questionId \in 1..NumQuestions, answer \in Answers :
    /\ Handled(i, id, "answer", AnswerBody(questionId, answer),
               POST(sessions[i], sessionsFile, id, AnswerBody(questionId, answer), shuffled, clock),
               FALSE)
    /\ UNCHANGED <<clock, takerVars, OtherRuns>>

(***************************************************************************)
(* The QuizTaker page of TakerSession.  startTime is set by an effect as   *)
(* soon as currentQuestion is, so it is not null when a question shows.    *)
(***************************************************************************)
\* which of its screens the component renders
Screen(loading, error, session, currentQuestion) ==
  IF loading THEN "loading"
  ELSE IF error THEN "error"
  ELSE IF ~session.loaded THEN "nothing"
  ELSE IF session.isCompleted THEN "results"
  ELSE IF ~session.isStarted THEN "intro"
  ELSE IF currentQuestion = 0 THEN "waiting"
  ELSE "question"

Showing == Screen(qtLoading, qtError, qtSession, qtCurrentQuestion)

\* QuizTimer is mounted anew (key = question id) when a question comes to show: it starts
\* from timeLimit; otherwise the timer is left as the step says
Timer(left, called) ==
  IF /\ Screen(qtLoading', qtError', qtSession', qtCurrentQuestion') = "question"
     /\ (Showing # "question" \/ qtCurrentQuestion' # qtCurrentQuestion)
  THEN timeLeft' = TimeLimit /\ hasCalledTimeUp' = FALSE
  ELSE timeLeft' = left /\ hasCalledTimeUp' = called

\* the client state after the response r of a GET
Fetched(r) ==
  /\ qtLoading' = FALSE
  /\ IF r.status # 200
     THEN qtError' = TRUE /\ UNCHANGED <<qtSession, qtCurrentQuestion>>
     ELSE /\ qtSession' = [isStarted |-> r.session.isStarted,
                           isCompleted |-> r.session.isCompleted, loaded |-> TRUE]
          /\ qtCurrentQuestion' = r.currentQuestion
          /\ qtError' = FALSE

\* fetchSession: on mount, and by the Try Again button of the error screen
fetchSession ==
  /\ Showing \in {"loading", "error"}
  /\ \E shuffled \in Shuffles(1, TakerSession) :
       LET r == GET(sessions[1], sessionsFile, TakerSession, shuffled, clock)
       IN /\ Handled(1, TakerSession, "get", StartBody, r, FALSE)
          /\ Fetched(r)
  /\ UNCHANGED <<clock, qtSelectedAnswer, OtherRuns>>
  /\ Timer(timeLeft, hasCalledTimeUp)

\* startQuiz: the Start Quiz button
startQuiz ==
  /\ Showing = "intro"
  /\ \E shuffled \in Shuffles(1, TakerSession) :
       LET r == POST(sessions[1], sessionsFile, TakerSession, StartBody, shuffled, clock)
           g == GET(r.sessions, r.file, TakerSession, shuffled, clock)
       IN IF r.status # 200
          THEN /\ Handled(1, TakerSession, "start", StartBody, r, FALSE)
               /\ qtError' = TRUE
               /\ UNCHANGED <<qtLoading, qtSession, qtCurrentQuestion>>
          ELSE /\ Handled(1, TakerSession, "start", StartBody,
                          [r EXCEPT !.sessions = g.sessions, !.file = g.file], FALSE)
               /\ Fetched(g)
  /\ UNCHANGED <<clock, qtSelectedAnswer, OtherRuns>>
  /\ Timer(timeLeft, hasCalledTimeUp)

\* the recipient picks an option
selectAnswer ==
  /\ Showing = "question"
  /\ qtSelectedAnswer = Null
  /\ qtSelectedAnswer' = Str("opt-1")
  /\ UNCHANGED <<storeVars, qtLoading, qtSession, qtCurrentQuestion, qtError, timeLeft,
                 hasCalledTimeUp, OtherRuns>>

\* the request of submitAnswer and what it does with the response
submitAnswer(forceSubmit) ==
  \E shuffled \in Shuffles(1, TakerSession) :
    LET body == AnswerBody(qtCurrentQuestion, qtSelectedAnswer)
        r == POST(sessions[1], sessionsFile, TakerSession, body, shuffled, clock)
    IN /\ Handled(1, TakerSession, "answer", body, r, forceSubmit)
       /\ IF r.status # 200
          THEN qtError' = TRUE /\ UNCHANGED <<qtSession, qtCurrentQuestion, qtSelectedAnswer>>
          ELSE /\ qtCurrentQuestion' = r.nextQuestion
               /\ qtSelectedAnswer' = Null
               /\ qtSession' = IF r.isCompleted THEN [qtSession EXCEPT !.isCompleted = TRUE]
                               ELSE qtSession
               /\ qtError' = qtError

\* the Submit button: submitAnswer(false) returns at once while nothing is selected
clickSubmit ==
  /\ Showing = "question"
  /\ qtSelectedAnswer # Null
  /\ submitAnswer(FALSE)
  /\ UNCHANGED <<clock, qtLoading, OtherRuns>>
  /\ Timer(timeLeft, hasCalledTimeUp)

\* the interval callback of QuizTimer; at zero it calls onTimeUp = handleTimeUp once
timerInterval ==
  /\ Showing = "question"
  /\ ~hasCalledTimeUp
  /\ LET newTime == timeLeft - 1
     IN IF newTime <= 0
        THEN /\ submitAnswer(TRUE)
             /\ UNCHANGED <<clock, qtLoading, OtherRuns>>
             /\ Timer(0, TRUE)
        ELSE /\ timeLeft' = newTime
             /\ UNCHANGED <<storeVars, qtLoading, qtSession, qtCurrentQuestion,
                            qtSelectedAnswer, qtError, hasCalledTimeUp, OtherRuns>>

\* quizSessionStore is one instance: every request is handled by store 1; the requests
\* are those for the session of the page
SessionNext ==
  \/ SessTick
  \/ Share(1, TakerSession)
  \/ Restart(1)
  \/ RequestGet(1, TakerSession)
  \/ RequestStart(1, TakerSession)
  \/ RequestAnswer(1, TakerSession)
  \/ fetchSession
  \/ startQuiz
  \/ selectAnswer
  \/ clickSubmit
  \/ timerInterval

SpecSession == SessionInit /\ [][SessionNext]_vars

\* the requests the route handlers of the one store instance can get for a session, in
\* any order, without the page
ApiNext ==
  \/ SessTick
  \/ Share(1, TakerSession)
  \/ Restart(1)
  \/ RequestGet(1, TakerSession)
  \/ RequestStart(1, TakerSession)
  \/ RequestAnswer(1, TakerSession)

SpecApi == SessionInit /\ [][ApiNext]_vars

\* the session of the page as the store holds it
Held == sessions[1][TakerSession]

\* the page shows the question the session is at, and the session is open for answers
AtCurrentQuestion ==
  /\ Showing = "question"
  /\ Held.present /\ clock <= Held.expiresAt.v
  /\ Held.isStarted /\ ~Held.isCompleted
  /\ ~Held.randomizeQuestionOrder
  /\ qtCurrentQuestion = QuestionAt(allQuestions, Held.currentQuestionIndex)

\* this step is the timer of the page reaching zero
TimeIsUp ==
  /\ timeLeft - 1 <= 0 /\ ~hasCalledTimeUp
  /\ response'.forced /\ response' # response

(***************************************************************************)
(* C21: when the timer of a question reaches zero in a started session     *)
(* that is not completed, the page submits the question whether or not an  *)
(* answer is selected, and the server accepts the submission and moves     *)
(* currentQuestionIndex on by one.                                         *)
(***************************************************************************)
C21_TimeUpAdvances ==
  [][(AtCurrentQuestion /\ TimeIsUp) =>
       /\ response'.status = 200
       /\ sessions'[1][TakerSession].currentQuestionIndex = Held.currentQuestionIndex + 1]_vars

\* what holds of a stored session at any time
SessionConsistent(session) ==
  /\ Len(session.answers) = session.currentQuestionIndex
  /\ session.currentQuestionIndex <= NumQuestions
  /\ session.isCompleted <=> session.currentQuestionIndex = NumQuestions

\* what holds of a stored session before and after any step
SessionStep(before, after) ==
  /\ after.answers # before.answers =>
       /\ before.isStarted /\ ~before.isCompleted
       /\ response'.op = "answer" /\ response'.status = 200
       /\ response'.questionId = response'.currentQuestion
       /\ ~before.randomizeQuestionOrder =>
            response'.questionId = QuestionAt(allQuestions, before.currentQuestionIndex)
       /\ Len(after.answers) = Len(before.answers) + 1
       /\ SubSeq(after.answers, 1, Len(before.answers)) = before.answers
       /\ after.answers[Len(after.answers)].questionId = response'.questionId
       /\ after.currentQuestionIndex = before.currentQuestionIndex + 1
  /\ after.answers = before.answers =>
       after.currentQuestionIndex = before.currentQuestionIndex
  /\ before.isCompleted => after.isCompleted /\ after.answers = before.answers
  /\ before.isStarted => after.isStarted

(***************************************************************************)
(* C28: after any sequence of start and answer requests on a session, an   *)
(* answer is accepted only if the session is started and not completed and *)
(* the questionId sent is the id of the question at currentQuestionIndex;  *)
(* an accepted answer appends one entry and adds 1 to                      *)
(* currentQuestionIndex; answers.length is currentQuestionIndex and at     *)
(* most the number of questions; isCompleted is true exactly when the      *)
(* index has reached the number of questions, and then it stays true and   *)
(* no answer is accepted; start succeeds at most once.                     *)
(***************************************************************************)
C28_SessionRules ==
  /\ [](Held.present => SessionConsistent(Held))
  /\ [](startCount[TakerSession] <= 1)
  /\ [][(Held.present /\ sessions'[1][TakerSession].present) =>
          /\ SessionStep(Held, sessions'[1][TakerSession])
          /\ startCount'[TakerSession] # startCount[TakerSession] => ~Held.isStarted]_vars

C28_Witness ==
  /\ Held.present /\ Held.isCompleted
  /\ Len(Held.answers) = NumQuestions
  /\ startCount[TakerSession] = 1
  /\ response.op = "answer" /\ response.status = 400

\* how often question q is among the answers of a session
TimesAnswered(session, q) ==
  Cardinality({k \in 1..Len(session.answers) : session.answers[k].questionId = q})

(***************************************************************************)
(* C29: the question order of a session with randomizeQuestionOrder is     *)
(* fixed for the life of the session: the question GET returns as current  *)
(* is the one the next answer POST checks against, and when the session is *)
(* completed every question of the quiz has been answered exactly once.    *)
(***************************************************************************)
C29_EveryQuestionOnce ==
  (Held.present /\ Held.isCompleted) =>
    \A q \in 1..NumQuestions : TimesAnswered(Held, q) = 1

(***************************************************************************)
(* Several store instances (server processes, or module instances of one   *)
(* process) that share the sessions file; a request goes to any of them.   *)
(***************************************************************************)
StoresNext ==
  \/ SessTick
  \/ \E i \in Stores, id \in SessionIds : Share(i, id)
  \/ \E i \in Stores : Restart(i)
  \/ \E i \in Stores, id \in SessionIds : RequestGet(i, id)
  \/ \E i \in Stores, id \in SessionIds : RequestStart(i, id)

SpecStores == SessionInit /\ [][StoresNext]_vars

(***************************************************************************)
(* C30: a session that was created and has not expired is returned by      *)
(* get(id) of every store instance as its latest accepted update left it,  *)
(* also when several instances create and update sessions through the same *)
(* file and after a get of an unknown id has reloaded the file.            *)
(***************************************************************************)
C30_GetReturnsLatest ==
  \A i \in Stores, id \in SessionIds :
    (latest[id].present /\ clock <= latest[id].expiresAt.v) =>
      get(sessions[i], sessionsFile, id, clock).session = latest[id]

====
